---- MODULE Spec2Model ----
(***************************************************************************)
(* Authorization and fairness layer of mygarage.bio:                       *)
(*   - the durable fixed-window rate limit store                           *)
(*     (supabase/migrations/0006, 0009: rate_limit_consume,                *)
(*      rate_limit_cleanup_expired);                                       *)
(*   - the row-level security policies over profiles, vehicles, mods and   *)
(*     images (0001_init.sql) and the public views (0003);                 *)
(*   - the adjacent-swap reorder functions (0007).                         *)
(*                                                                         *)
(* Timestamps are integers counting ticks of 1/TicksPerSec second, SQL     *)
(* NULL is the string NULL for text/uuid columns and the empty sequence    *)
(* for nullable integer parameters.                                        *)
(***************************************************************************)
EXTENDS Integers, Sequences, FiniteSets, Bags, TLC

VARIABLES
  now,                  \* the database clock, in ticks
  tx,                   \* the bag of rate_limit_consume transactions in flight
  rate_limit_buckets,   \* table public.rate_limit_buckets (set of rows)
  consumed,             \* history: per key, the window of every upsert, in commit order
  calls,                \* number of consume calls begun so far
  result,               \* the row returned by the last completed consume
  profiles,             \* table public.profiles
  vehicles,             \* table public.vehicles
  mods,                 \* table public.mods
  images,               \* table public.images
  last,                 \* the last statement issued against the entity tables
  inflight,             \* the reorder calls in progress, one transaction each
  request,              \* the application request being served
  effects,              \* the calls the request has issued to its backends, in order
  response,             \* the response of the request
  schema,               \* the migrations applied and the privileges they leave
  objects               \* table storage.objects: the objects of the mygarage bucket

rlvars == <<now, tx, rate_limit_buckets, consumed, calls, result>>
dbvars == <<profiles, vehicles, mods, images, last>>
callvars == <<inflight, request, effects, response>>
sysvars == <<schema, objects>>
vars == <<now, tx, rate_limit_buckets, consumed, calls, result,
          profiles, vehicles, mods, images, last,
          inflight, request, effects, response, schema, objects>>

NULL == "NULL"

Max(a, b) == IF a >= b THEN a ELSE b

Min(a, b) == IF a <= b THEN a ELSE b

\* SQL greatest / least / coalesce on integers
Greatest(a, b) == Max(a, b)

Least(a, b) == Min(a, b)

Coalesce(x, d) == IF x = <<>> THEN d ELSE x[1]

\* ceil(a / b) for a >= 0, b > 0
CeilDiv(a, b) == (a + b - 1) \div b

(***************************************************************************)
(* Bounds of the model                                                     *)
(***************************************************************************)
TicksPerSec == 2

\* number of clock advances in a behaviour
MaxTicks == 2

\* a wait long enough to pass the expiry grace period, in seconds
LongWait == 700

\* number of rate_limit_consume calls in a behaviour
MaxCalls == 3

\* number of consume transactions that can be open at the same time
MaxOpen == 2

(***************************************************************************)
(* Rate limit store                                                        *)
(***************************************************************************)
MaxWindowSeconds == 86400

MaxRequestsCap == 100000

GraceSeconds == 600

ConsumeCleanupBatch == 200

CleanupDefaultRows == 500

CleanupMaxRows == 5000

\* p_bucket_key values and trim(coalesce(p_bucket_key, ''))
KeyInputs == {"k", " k", " ", NULL}

Trim(s) ==
  CASE s = "k" -> "k"
    [] s = " k" -> "k"
    [] s = " " -> ""
    [] OTHER -> s

KeyOf(p_bucket_key) == Trim(IF p_bucket_key = NULL THEN "" ELSE p_bucket_key)

Keys == {KeyOf(k) : k \in KeyInputs} \ {""}

\* p_max_requests and p_window_seconds values (<<>> is NULL)
MaxRequestsInputs == {<<>>, <<0>>, <<2>>}

WindowSecondsInputs == {<<>>, <<0>>, <<60>>}

ClampWindowSeconds(p_window_seconds) ==
  Greatest(1, Least(Coalesce(p_window_seconds, 1), MaxWindowSeconds))

\* a faulty clamp without the lower bound of 1
ClampMaxRequestsNoFloor(p_max_requests) ==
  Least(Coalesce(p_max_requests, 1), MaxRequestsCap)

ClampMaxRequests(p_max_requests) ==
  Greatest(1, Least(Coalesce(p_max_requests, 1), MaxRequestsCap))

\* a faulty window that starts at the second of the call
WindowStartedAtSecond(v_now, v_window_seconds) ==
  (v_now \div TicksPerSec) * TicksPerSec

\* to_timestamp(floor(extract(epoch from v_now) / v_window_seconds) * v_window_seconds)
WindowStartedAt(v_now, v_window_seconds) ==
  ((v_now \div TicksPerSec) \div v_window_seconds) * v_window_seconds * TicksPerSec

WindowEndsAt(v_now, v_window_seconds) ==
  WindowStartedAt(v_now, v_window_seconds) + v_window_seconds * TicksPerSec

ExpiresAt(v_now, v_window_seconds) ==
  WindowEndsAt(v_now, v_window_seconds)
    + Greatest(v_window_seconds, GraceSeconds) * TicksPerSec

\* the row of the VALUES clause (EXCLUDED in the ON CONFLICT branch)
ExcludedRow(v_key, v_now, v_window_seconds) ==
  [bucket_key |-> v_key,
   window_started_at |-> WindowStartedAt(v_now, v_window_seconds),
   window_seconds |-> v_window_seconds,
   request_count |-> 1,
   window_ends_at |-> WindowEndsAt(v_now, v_window_seconds),
   expires_at |-> ExpiresAt(v_now, v_window_seconds),
   updated_at |-> v_now]

\* a faulty increment that reads the count of the incoming row
ConflictRequestCountExcluded(rl, excluded) ==
  IF rl.window_started_at = excluded.window_started_at
     /\ rl.window_seconds = excluded.window_seconds
  THEN excluded.request_count + 1
  ELSE 1

\* a faulty window test that forgets window_started_at
ConflictRequestCountNoStart(rl, excluded) ==
  IF rl.window_seconds = excluded.window_seconds
  THEN rl.request_count + 1
  ELSE 1

\* a faulty window test that forgets window_seconds
ConflictRequestCountNoSeconds(rl, excluded) ==
  IF rl.window_started_at = excluded.window_started_at
  THEN rl.request_count + 1
  ELSE 1

\* a faulty reset that starts a new window at zero
ConflictRequestCountZero(rl, excluded) ==
  IF rl.window_started_at = excluded.window_started_at
     /\ rl.window_seconds = excluded.window_seconds
  THEN rl.request_count + 1
  ELSE 0

\* the CASE of the DO UPDATE SET request_count
ConflictRequestCount(rl, excluded) ==
  IF rl.window_started_at = excluded.window_started_at
     /\ rl.window_seconds = excluded.window_seconds
  THEN rl.request_count + 1
  ELSE 1

\* insert ... on conflict (bucket_key) do update ... : the row stored afterwards
UpsertRow(table, excluded) ==
  IF \E rl \in table : rl.bucket_key = excluded.bucket_key
  THEN LET rl == CHOOSE r \in table : r.bucket_key = excluded.bucket_key
       IN [excluded EXCEPT !.request_count = ConflictRequestCount(rl, excluded)]
  ELSE excluded

Upsert(table, excluded) ==
  {r \in table : r.bucket_key # excluded.bucket_key} \cup {UpsertRow(table, excluded)}

\* rate_limit_cleanup_expired: the sets of rows one call may delete
CleanupLimit(p_max_rows) ==
  Greatest(1, Least(Coalesce(p_max_rows, CleanupDefaultRows), CleanupMaxRows))

\* a faulty cleanup that deletes a row as soon as its window has ended
ExpiredAtWindowEnd(table, at) == {r \in table : r.window_ends_at < at}

Expired(table, at) == {r \in table : r.expires_at < at}

CleanupChoices(table, at, p_max_rows) ==
  LET expired == Expired(table, at)
      n == Min(CleanupLimit(p_max_rows), Cardinality(expired))
  IN {S \in SUBSET expired :
        /\ Cardinality(S) = n
        /\ \A r \in S : \A q \in expired \ S : r.expires_at <= q.expires_at}

\* a faulty limit test that denies the last permitted request
AllowedStrict(v_request_count, v_max_requests) == v_request_count < v_max_requests

Allowed(v_request_count, v_max_requests) == v_request_count <= v_max_requests

Remaining(v_request_count, v_max_requests) ==
  Greatest(v_max_requests - v_request_count, 0)

RetryAfterSeconds(allowed, v_window_ends_at, v_now) ==
  IF allowed THEN 0
  ELSE Greatest(1, CeilDiv(v_window_ends_at - v_now, TicksPerSec))

NoResult == [raised |-> FALSE, key |-> ""]

\* the clock advances by one tick or by LongWait seconds
ClockSteps == {1, LongWait * TicksPerSec}

TicksTaken(t) == (t \div (LongWait * TicksPerSec)) + (t % (LongWait * TicksPerSec))

Advance(d) ==
  /\ TicksTaken(now) < MaxTicks
  /\ now' = now + d
  /\ UNCHANGED <<tx, rate_limit_buckets, consumed, calls, result>>
  /\ UNCHANGED dbvars
  /\ UNCHANGED callvars
  /\ UNCHANGED sysvars

\* lines 20-32: the transaction starts, now() is fixed, the parameters are
\* normalised and an empty key raises
ConsumeBegin(p_bucket_key, p_max_requests, p_window_seconds) ==
  /\ BagCardinality(tx) < MaxOpen
  /\ calls < MaxCalls
  /\ calls' = calls + 1
  /\ IF KeyOf(p_bucket_key) = ""
     THEN /\ result' = [raised |-> TRUE, key |-> ""]
          /\ UNCHANGED tx
     ELSE /\ tx' = tx (+) SetToBag({[key |-> KeyOf(p_bucket_key),
                                     max_requests |-> ClampMaxRequests(p_max_requests),
                                     window_seconds |-> ClampWindowSeconds(p_window_seconds),
                                     v_now |-> now]})
          /\ UNCHANGED result
  /\ UNCHANGED <<now, rate_limit_buckets, consumed>>
  /\ UNCHANGED dbvars
  /\ UNCHANGED callvars
  /\ UNCHANGED sysvars

\* lines 34-90: the upsert, the optional cleanup and the returned row.  The
\* upsert holds the row lock of the key until commit, so the statements from
\* the upsert to the return are one step relative to the other transactions.
ConsumeFinish(t, cleanup) ==
  /\ BagIn(t, tx)
  /\ LET excluded == ExcludedRow(t.key, t.v_now, t.window_seconds)
         row == UpsertRow(rate_limit_buckets, excluded)
         upserted == Upsert(rate_limit_buckets, excluded)
         allowed == Allowed(row.request_count, t.max_requests)
     IN /\ IF cleanup
           THEN \E S \in CleanupChoices(upserted, t.v_now, <<ConsumeCleanupBatch>>) :
                  rate_limit_buckets' = upserted \ S
           ELSE rate_limit_buckets' = upserted
        /\ consumed' = [consumed EXCEPT ![t.key] =
                          Append(@, [window_started_at |-> excluded.window_started_at,
                                     window_seconds |-> excluded.window_seconds])]
        /\ result' = [raised |-> FALSE,
                      key |-> t.key,
                      max_requests |-> t.max_requests,
                      v_now |-> t.v_now,
                      allowed |-> allowed,
                      remaining |-> Remaining(row.request_count, t.max_requests),
                      retry_after_seconds |->
                        RetryAfterSeconds(allowed, row.window_ends_at, t.v_now),
                      window_ends_at |-> row.window_ends_at]
  /\ tx' = tx (-) SetToBag({t})
  /\ UNCHANGED <<now, calls>>
  /\ UNCHANGED dbvars
  /\ UNCHANGED callvars
  /\ UNCHANGED sysvars

\* rate_limit_cleanup_expired called on its own (service role)
CleanupExpired(p_max_rows) ==
  /\ \E S \in CleanupChoices(rate_limit_buckets, now, p_max_rows) :
       /\ S # {}
       /\ rate_limit_buckets' = rate_limit_buckets \ S
  /\ UNCHANGED <<now, tx, consumed, calls, result>>
  /\ UNCHANGED dbvars
  /\ UNCHANGED callvars
  /\ UNCHANGED sysvars

NoStatement == [op |-> "none", table |-> "none", outcome |-> "none"]

NoRequest == [handler |-> "none"]

NoResponse == [status |-> "none"]

\* no migration applied, no privilege granted
NoSchema == [version |-> 0, created |-> {}, acl |-> {}]

InitRL ==
  /\ now = 0
  /\ tx = EmptyBag
  /\ rate_limit_buckets = {}
  /\ consumed = [k \in Keys |-> <<>>]
  /\ calls = 0
  /\ result = NoResult
  /\ profiles = {}
  /\ vehicles = {}
  /\ mods = {}
  /\ images = {}
  /\ last = NoStatement
  /\ inflight = <<>>
  /\ request = NoRequest
  /\ effects = <<>>
  /\ response = NoResponse
  /\ schema = NoSchema
  /\ objects = {}

NextRL ==
  \/ \E d \in ClockSteps : Advance(d)
  \/ \E k \in KeyInputs, m \in MaxRequestsInputs, w \in WindowSecondsInputs :
       ConsumeBegin(k, m, w)
  \/ \E t \in BagToSet(tx), c \in BOOLEAN : ConsumeFinish(t, c)
  \/ \E n \in {<<>>, <<0>>} : CleanupExpired(n)

SpecRL == InitRL /\ [][NextRL]_vars

(***************************************************************************)
(* Properties of the rate limit store                                      *)
(***************************************************************************)
BucketOf(k) == {r \in rate_limit_buckets : r.bucket_key = k}

\* the instant after which cleanup may delete the row of window w
WindowExpiry(w) ==
  w.window_started_at
    + (w.window_seconds + Max(w.window_seconds, GraceSeconds)) * TicksPerSec

WindowEnd(w) == w.window_started_at + w.window_seconds * TicksPerSec

AllSameWindow(log) == \A i \in 1..Len(log) : log[i] = log[1]

\* how many of the latest consecutive calls in log are of the window of the last one
RECURSIVE SameWindowSuffix(_)
SameWindowSuffix(log) ==
  IF Len(log) <= 1 THEN Len(log)
  ELSE IF log[Len(log) - 1] = log[Len(log)]
       THEN 1 + SameWindowSuffix(SubSeq(log, 1, Len(log) - 1))
       ELSE 1

C3_ResetAfterBoundary ==
  [][consumed' # consumed =>
       \A rl \in BucketOf(result'.key) :
         result'.v_now >= rl.window_ends_at =>
           /\ result'.allowed
           /\ \E r \in rate_limit_buckets' :
                r.bucket_key = result'.key /\ r.request_count = 1]_vars

\* the previous window ended above its limit of 1, the next window starts at 1
C3_Witness ==
  /\ Len(consumed["k"]) = 3
  /\ consumed["k"][1] = consumed["k"][2]
  /\ consumed["k"][3].window_seconds = consumed["k"][2].window_seconds
  /\ result.key = "k"
  /\ result.max_requests = 1
  /\ result.v_now >= WindowEnd(consumed["k"][2])
  /\ result.allowed
  /\ \E r \in BucketOf("k") : r.request_count = 1

(***************************************************************************)
(* Entity tables and row-level security (0001_init.sql)                    *)
(***************************************************************************)
\* auth.users ids; profiles.id maps 1:1 to them
Users == {"A", "B"}

VehicleIds == {"v1", "v2"}

ModIds == {"m1"}

ImageIds == {"i1"}

\* the session of a statement: the database role and auth.uid()
AnonCaller == [role |-> "anon", uid |-> NULL]

AuthCaller(u) == [role |-> "authenticated", uid |-> u]

Callers == {AnonCaller} \cup {AuthCaller(u) : u \in Users}

\* SQL equality: never true on NULL
SqlEq(a, b) == a # NULL /\ b # NULL /\ a = b

UsernameInputs == {NULL, "al", "Al", " "}

Lower(s) == IF s = "Al" THEN "al" ELSE s

Btrim(s) == IF s = " " THEN "" ELSE s

SortOrderDefault == 0

ProfileRows == [id : Users, username : UsernameInputs]

VehicleRows ==
  [id : VehicleIds, profile_id : Users, is_public : BOOLEAN,
   sort_order : {SortOrderDefault}, created_at : {0}]

ModRows ==
  [id : ModIds, vehicle_id : VehicleIds, sort_order : {SortOrderDefault}, created_at : {0}]

ImageRows ==
  [id : ImageIds, profile_id : Users,
   vehicle_id : VehicleIds \cup {NULL}, mod_id : ModIds \cup {NULL}]

Ids(table) == {r.id : r \in table}

\* grants of 0001_init.sql as narrowed by 0008: anon only reads
HasGrant(c, privilege) ==
  \/ c.role = "authenticated"
  \/ c.role = "anon" /\ privilege = "select"

\* ---- profiles ----
profiles_owner_select(c, row) == c.role = "authenticated" /\ SqlEq(c.uid, row.id)

profiles_owner_insert(c, row) == c.role = "authenticated" /\ SqlEq(c.uid, row.id)

profiles_owner_update(c, row) == c.role = "authenticated" /\ SqlEq(c.uid, row.id)

profiles_owner_delete(c, row) == c.role = "authenticated" /\ SqlEq(c.uid, row.id)

\* a faulty public policy that publishes every profile
profiles_public_select_all(c, row) == c.role \in {"anon", "authenticated"}

profiles_public_select(c, row) ==
  c.role \in {"anon", "authenticated"} /\ row.username # NULL

\* the rows of profiles a statement of caller c can see
SelProfiles(c) ==
  {p \in profiles : profiles_owner_select(c, p) \/ profiles_public_select(c, p)}

\* ---- vehicles ----
\* a faulty owner test that accepts any existing profile
VehicleOwnerAnyProfile(c, row) ==
  \E p \in SelProfiles(c) : SqlEq(p.id, row.profile_id)

\* exists (select 1 from profiles p where p.id = vehicles.profile_id and p.id = auth.uid())
VehicleOwner(c, row) ==
  \E p \in SelProfiles(c) : SqlEq(p.id, row.profile_id) /\ SqlEq(p.id, c.uid)

vehicles_owner_select(c, row) == c.role = "authenticated" /\ VehicleOwner(c, row)

vehicles_owner_insert(c, row) == c.role = "authenticated" /\ VehicleOwner(c, row)

vehicles_owner_update(c, row) == c.role = "authenticated" /\ VehicleOwner(c, row)

vehicles_owner_delete(c, row) == c.role = "authenticated" /\ VehicleOwner(c, row)

\* a faulty public policy that publishes every vehicle flagged public
vehicles_public_select_flag_only(c, row) ==
  c.role \in {"anon", "authenticated"} /\ row.is_public = TRUE

\* a faulty public policy that publishes every vehicle of a published profile
vehicles_public_select_published_only(c, row) ==
  /\ c.role \in {"anon", "authenticated"}
  /\ \E p \in SelProfiles(c) : SqlEq(p.id, row.profile_id) /\ p.username # NULL

vehicles_public_select(c, row) ==
  /\ c.role \in {"anon", "authenticated"}
  /\ row.is_public = TRUE
  /\ \E p \in SelProfiles(c) : SqlEq(p.id, row.profile_id) /\ p.username # NULL

SelVehicles(c) ==
  {v \in vehicles : vehicles_owner_select(c, v) \/ vehicles_public_select(c, v)}

\* ---- mods ----
\* exists (select 1 from vehicles v join profiles p on p.id = v.profile_id
\*         where v.id = mods.vehicle_id and p.id = auth.uid())
ModOwner(c, row) ==
  \E v \in SelVehicles(c) : \E p \in SelProfiles(c) :
    SqlEq(p.id, v.profile_id) /\ SqlEq(v.id, row.vehicle_id) /\ SqlEq(p.id, c.uid)

mods_owner_select(c, row) == c.role = "authenticated" /\ ModOwner(c, row)

mods_owner_insert(c, row) == c.role = "authenticated" /\ ModOwner(c, row)

mods_owner_update(c, row) == c.role = "authenticated" /\ ModOwner(c, row)

mods_owner_delete(c, row) == c.role = "authenticated" /\ ModOwner(c, row)

mods_public_select(c, row) ==
  /\ c.role \in {"anon", "authenticated"}
  /\ \E v \in SelVehicles(c) : \E p \in SelProfiles(c) :
       /\ SqlEq(p.id, v.profile_id)
       /\ SqlEq(v.id, row.vehicle_id)
       /\ v.is_public = TRUE
       /\ p.username # NULL

SelMods(c) == {m \in mods : mods_owner_select(c, m) \/ mods_public_select(c, m)}

\* ---- images ----
\* the owner test before the fix: only images.profile_id = auth.uid()
ImageOwnerProfileOnly(c, row) == SqlEq(row.profile_id, c.uid)

\* a faulty owner test that trusts the parent chain and ignores images.profile_id
ImageOwnerParentOnly(c, row) ==
  \/ /\ row.vehicle_id # NULL
     /\ \E v \in SelVehicles(c) : SqlEq(v.id, row.vehicle_id) /\ SqlEq(v.profile_id, c.uid)
  \/ /\ row.mod_id # NULL
     /\ \E m \in SelMods(c) : \E v \in SelVehicles(c) :
          SqlEq(v.id, m.vehicle_id) /\ SqlEq(m.id, row.mod_id) /\ SqlEq(v.profile_id, c.uid)

\* images.profile_id = auth.uid() and (the vehicle or the mod's vehicle is the caller's)
ImageOwner(c, row) ==
  /\ SqlEq(row.profile_id, c.uid)
  /\ \/ /\ row.vehicle_id # NULL
        /\ \E v \in SelVehicles(c) :
             SqlEq(v.id, row.vehicle_id) /\ SqlEq(v.profile_id, c.uid)
     \/ /\ row.mod_id # NULL
        /\ \E m \in SelMods(c) : \E v \in SelVehicles(c) :
             /\ SqlEq(v.id, m.vehicle_id)
             /\ SqlEq(m.id, row.mod_id)
             /\ SqlEq(v.profile_id, c.uid)

images_owner_select(c, row) == c.role = "authenticated" /\ ImageOwner(c, row)

images_owner_insert(c, row) == c.role = "authenticated" /\ ImageOwner(c, row)

images_owner_update(c, row) == c.role = "authenticated" /\ ImageOwner(c, row)

images_owner_delete(c, row) == c.role = "authenticated" /\ ImageOwner(c, row)

images_public_select(c, row) ==
  /\ c.role \in {"anon", "authenticated"}
  /\ \/ /\ row.vehicle_id # NULL
        /\ \E v \in SelVehicles(c) : \E p \in SelProfiles(c) :
             /\ SqlEq(p.id, v.profile_id)
             /\ SqlEq(v.id, row.vehicle_id)
             /\ v.is_public = TRUE
             /\ p.username # NULL
     \/ /\ row.mod_id # NULL
        /\ \E m \in SelMods(c) : \E v \in SelVehicles(c) : \E p \in SelProfiles(c) :
             /\ SqlEq(v.id, m.vehicle_id)
             /\ SqlEq(p.id, v.profile_id)
             /\ SqlEq(m.id, row.mod_id)
             /\ v.is_public = TRUE
             /\ p.username # NULL

SelImages(c) == {i \in images : images_owner_select(c, i) \/ images_public_select(c, i)}

\* ---- public views (0003, security_invoker) ----
public_profiles(c) == {p \in SelProfiles(c) : p.username # NULL}

public_vehicles(c) ==
  {v \in SelVehicles(c) :
     /\ v.is_public = TRUE
     /\ \E p \in SelProfiles(c) : SqlEq(p.id, v.profile_id) /\ p.username # NULL}

public_mods(c) ==
  {m \in SelMods(c) :
     \E v \in SelVehicles(c) : \E p \in SelProfiles(c) :
       /\ SqlEq(p.id, v.profile_id)
       /\ SqlEq(v.id, m.vehicle_id)
       /\ v.is_public = TRUE
       /\ p.username # NULL}

public_images(c) ==
  {i \in SelImages(c) :
     \/ /\ i.vehicle_id # NULL
        /\ \E v \in SelVehicles(c) : \E p \in SelProfiles(c) :
             /\ SqlEq(p.id, v.profile_id)
             /\ SqlEq(v.id, i.vehicle_id)
             /\ v.is_public = TRUE
             /\ p.username # NULL
     \/ /\ i.mod_id # NULL
        /\ \E m \in SelMods(c) : \E v \in SelVehicles(c) : \E p \in SelProfiles(c) :
             /\ SqlEq(v.id, m.vehicle_id)
             /\ SqlEq(p.id, v.profile_id)
             /\ SqlEq(m.id, i.mod_id)
             /\ v.is_public = TRUE
             /\ p.username # NULL}

\* ---- table constraints ----
PrimaryKey(table) == \A r, q \in table : r.id = q.id => r = q

profiles_username_not_blank(row) == row.username = NULL \/ Btrim(row.username) # ""

profiles_username_lowercase(row) == row.username = NULL \/ row.username = Lower(row.username)

\* a table without the unique index on lower(username)
profiles_username_no_unique_idx(table) == TRUE

profiles_username_unique_ci_idx(table) ==
  \A r, q \in table :
    (r.username # NULL /\ q.username # NULL /\ Lower(r.username) = Lower(q.username))
      => r = q

\* a faulty parent check that only rejects an image without a parent
images_some_parent(row) == row.vehicle_id # NULL \/ row.mod_id # NULL

images_exactly_one_parent(row) ==
  \/ row.vehicle_id # NULL /\ row.mod_id = NULL
  \/ row.vehicle_id = NULL /\ row.mod_id # NULL

\* every check, key and foreign key of the four tables on candidate contents
ConstraintsHold(P, V, M, I) ==
  /\ PrimaryKey(P) /\ PrimaryKey(V) /\ PrimaryKey(M) /\ PrimaryKey(I)
  /\ \A p \in P : /\ p.id \in Users
                  /\ profiles_username_not_blank(p)
                  /\ profiles_username_lowercase(p)
  /\ profiles_username_unique_ci_idx(P)
  /\ \A v \in V : v.profile_id \in Ids(P)
  /\ \A m \in M : m.vehicle_id \in Ids(V)
  /\ \A i \in I : /\ i.profile_id \in Ids(P)
                  /\ i.vehicle_id = NULL \/ i.vehicle_id \in Ids(V)
                  /\ i.mod_id = NULL \/ i.mod_id \in Ids(M)
                  /\ images_exactly_one_parent(i)

\* on delete cascade: the rows left once the parents P, V, M remain
RemainingVehicles(P) == {v \in vehicles : v.profile_id \in Ids(P)}

RemainingMods(V) == {m \in mods : m.vehicle_id \in Ids(V)}

RemainingImages(P, V, M) ==
  {i \in images :
     /\ i.profile_id \in Ids(P)
     /\ i.vehicle_id = NULL \/ i.vehicle_id \in Ids(V)
     /\ i.mod_id = NULL \/ i.mod_id \in Ids(M)}

Statement(op, table, c, id, old, row, outcome) ==
  [op |-> op, table |-> table, caller |-> c, id |-> id, old |-> old, row |-> row,
   outcome |-> outcome]

\* the outcome of a statement: permission denied, no row passing the USING
\* policies, a policy violation, a constraint violation, or success.  Only a
\* statement with outcome ok changes the tables.
Outcome(granted, targets, checked, valid) ==
  IF ~granted THEN "denied"
  ELSE IF targets = {} THEN "norows"
  ELSE IF ~checked THEN "rls"
  ELSE IF ~valid THEN "constraint"
  ELSE "ok"

NoRow == [id |-> NULL]

\* ---- statements on profiles ----
\* insert into profiles: the WITH CHECK of the insert policy, then the constraints
ProfilesInsertOutcome(c, row) ==
  Outcome(HasGrant(c, "insert"), {row}, profiles_owner_insert(c, row),
          row.id \notin Ids(profiles)
            /\ ConstraintsHold(profiles \cup {row}, vehicles, mods, images))

ProfilesInsert(c, row) ==
  /\ ProfilesInsertOutcome(c, row) = "ok"
  /\ profiles' = profiles \cup {row}
  /\ last' = Statement("insert", "profiles", c, row.id, {}, row, "ok")
  /\ UNCHANGED <<vehicles, mods, images>>
  /\ UNCHANGED rlvars
  /\ UNCHANGED sysvars
  /\ UNCHANGED callvars

\* update profiles set ... where id = ...: the rows passing the SELECT and the
\* UPDATE USING policies, the WITH CHECK on the new row, then the constraints
ProfilesUpdateTargets(c, id) ==
  {r \in SelProfiles(c) : r.id = id /\ profiles_owner_update(c, r)}

ProfilesUpdateOutcome(c, id, row) ==
  Outcome(HasGrant(c, "update"), ProfilesUpdateTargets(c, id),
          /\ profiles_owner_update(c, row)
          /\ profiles_owner_select(c, row) \/ profiles_public_select(c, row),
          (row.id = id \/ row.id \notin Ids(profiles))
            /\ ConstraintsHold((profiles \ ProfilesUpdateTargets(c, id)) \cup {row}, vehicles, mods, images))

ProfilesUpdate(c, id, row) ==
  /\ ProfilesUpdateOutcome(c, id, row) = "ok"
  /\ profiles' = (profiles \ ProfilesUpdateTargets(c, id)) \cup {row}
  /\ last' = Statement("update", "profiles", c, id, ProfilesUpdateTargets(c, id), row, "ok")
  /\ UNCHANGED <<vehicles, mods, images>>
  /\ UNCHANGED rlvars
  /\ UNCHANGED sysvars
  /\ UNCHANGED callvars

\* delete from profiles where id = ...: the rows passing the SELECT and the
\* DELETE USING policies; the foreign keys cascade
ProfilesDeleteTargets(c, id) ==
  {r \in SelProfiles(c) : r.id = id /\ profiles_owner_delete(c, r)}

ProfilesDeleteOutcome(c, id) ==
  Outcome(HasGrant(c, "delete"), ProfilesDeleteTargets(c, id), TRUE, TRUE)

ProfilesDelete(c, id) ==
  /\ ProfilesDeleteOutcome(c, id) = "ok"
  /\ LET P == profiles \ ProfilesDeleteTargets(c, id)
         V == RemainingVehicles(P)
         M == RemainingMods(V)
     IN /\ profiles' = P
        /\ vehicles' = V
        /\ mods' = M
        /\ images' = RemainingImages(P, V, M)
  /\ last' = Statement("delete", "profiles", c, id, ProfilesDeleteTargets(c, id), NoRow, "ok")
  /\ UNCHANGED rlvars
  /\ UNCHANGED sysvars
  /\ UNCHANGED callvars

\* ---- statements on vehicles ----
\* insert into vehicles: the WITH CHECK of the insert policy, then the constraints
VehiclesInsertOutcome(c, row) ==
  Outcome(HasGrant(c, "insert"), {row}, vehicles_owner_insert(c, row),
          row.id \notin Ids(vehicles)
            /\ ConstraintsHold(profiles, vehicles \cup {row}, mods, images))

VehiclesInsert(c, row) ==
  /\ VehiclesInsertOutcome(c, row) = "ok"
  /\ vehicles' = vehicles \cup {row}
  /\ last' = Statement("insert", "vehicles", c, row.id, {}, row, "ok")
  /\ UNCHANGED <<profiles, mods, images>>
  /\ UNCHANGED rlvars
  /\ UNCHANGED sysvars
  /\ UNCHANGED callvars

\* update vehicles set ... where id = ...: the rows passing the SELECT and the
\* UPDATE USING policies, the WITH CHECK on the new row, then the constraints
VehiclesUpdateTargets(c, id) ==
  {r \in SelVehicles(c) : r.id = id /\ vehicles_owner_update(c, r)}

VehiclesUpdateOutcome(c, id, row) ==
  Outcome(HasGrant(c, "update"), VehiclesUpdateTargets(c, id),
          /\ vehicles_owner_update(c, row)
          /\ vehicles_owner_select(c, row) \/ vehicles_public_select(c, row),
          (row.id = id \/ row.id \notin Ids(vehicles))
            /\ ConstraintsHold(profiles, (vehicles \ VehiclesUpdateTargets(c, id)) \cup {row}, mods, images))

VehiclesUpdate(c, id, row) ==
  /\ VehiclesUpdateOutcome(c, id, row) = "ok"
  /\ vehicles' = (vehicles \ VehiclesUpdateTargets(c, id)) \cup {row}
  /\ last' = Statement("update", "vehicles", c, id, VehiclesUpdateTargets(c, id), row, "ok")
  /\ UNCHANGED <<profiles, mods, images>>
  /\ UNCHANGED rlvars
  /\ UNCHANGED sysvars
  /\ UNCHANGED callvars

\* delete from vehicles where id = ...: the rows passing the SELECT and the
\* DELETE USING policies; the foreign keys cascade
VehiclesDeleteTargets(c, id) ==
  {r \in SelVehicles(c) : r.id = id /\ vehicles_owner_delete(c, r)}

VehiclesDeleteOutcome(c, id) ==
  Outcome(HasGrant(c, "delete"), VehiclesDeleteTargets(c, id), TRUE, TRUE)

VehiclesDelete(c, id) ==
  /\ VehiclesDeleteOutcome(c, id) = "ok"
  /\ LET V == vehicles \ VehiclesDeleteTargets(c, id)
         M == RemainingMods(V)
     IN /\ vehicles' = V
        /\ mods' = M
        /\ images' = RemainingImages(profiles, V, M)
  /\ UNCHANGED profiles
  /\ last' = Statement("delete", "vehicles", c, id, VehiclesDeleteTargets(c, id), NoRow, "ok")
  /\ UNCHANGED rlvars
  /\ UNCHANGED sysvars
  /\ UNCHANGED callvars

\* ---- statements on mods ----
\* insert into mods: the WITH CHECK of the insert policy, then the constraints
ModsInsertOutcome(c, row) ==
  Outcome(HasGrant(c, "insert"), {row}, mods_owner_insert(c, row),
          row.id \notin Ids(mods)
            /\ ConstraintsHold(profiles, vehicles, mods \cup {row}, images))

ModsInsert(c, row) ==
  /\ ModsInsertOutcome(c, row) = "ok"
  /\ mods' = mods \cup {row}
  /\ last' = Statement("insert", "mods", c, row.id, {}, row, "ok")
  /\ UNCHANGED <<profiles, vehicles, images>>
  /\ UNCHANGED rlvars
  /\ UNCHANGED sysvars
  /\ UNCHANGED callvars

\* update mods set ... where id = ...: the rows passing the SELECT and the
\* UPDATE USING policies, the WITH CHECK on the new row, then the constraints
ModsUpdateTargets(c, id) ==
  {r \in SelMods(c) : r.id = id /\ mods_owner_update(c, r)}

ModsUpdateOutcome(c, id, row) ==
  Outcome(HasGrant(c, "update"), ModsUpdateTargets(c, id),
          /\ mods_owner_update(c, row)
          /\ mods_owner_select(c, row) \/ mods_public_select(c, row),
          (row.id = id \/ row.id \notin Ids(mods))
            /\ ConstraintsHold(profiles, vehicles, (mods \ ModsUpdateTargets(c, id)) \cup {row}, images))

ModsUpdate(c, id, row) ==
  /\ ModsUpdateOutcome(c, id, row) = "ok"
  /\ mods' = (mods \ ModsUpdateTargets(c, id)) \cup {row}
  /\ last' = Statement("update", "mods", c, id, ModsUpdateTargets(c, id), row, "ok")
  /\ UNCHANGED <<profiles, vehicles, images>>
  /\ UNCHANGED rlvars
  /\ UNCHANGED sysvars
  /\ UNCHANGED callvars

\* delete from mods where id = ...: the rows passing the SELECT and the
\* DELETE USING policies; the foreign keys cascade
ModsDeleteTargets(c, id) ==
  {r \in SelMods(c) : r.id = id /\ mods_owner_delete(c, r)}

ModsDeleteOutcome(c, id) ==
  Outcome(HasGrant(c, "delete"), ModsDeleteTargets(c, id), TRUE, TRUE)

ModsDelete(c, id) ==
  /\ ModsDeleteOutcome(c, id) = "ok"
  /\ LET M == mods \ ModsDeleteTargets(c, id)
     IN /\ mods' = M
        /\ images' = RemainingImages(profiles, vehicles, M)
  /\ UNCHANGED <<profiles, vehicles>>
  /\ last' = Statement("delete", "mods", c, id, ModsDeleteTargets(c, id), NoRow, "ok")
  /\ UNCHANGED rlvars
  /\ UNCHANGED sysvars
  /\ UNCHANGED callvars

\* ---- statements on images ----
\* insert into images: the WITH CHECK of the insert policy, then the constraints
ImagesInsertOutcome(c, row) ==
  Outcome(HasGrant(c, "insert"), {row}, images_owner_insert(c, row),
          row.id \notin Ids(images)
            /\ ConstraintsHold(profiles, vehicles, mods, images \cup {row}))

ImagesInsert(c, row) ==
  /\ ImagesInsertOutcome(c, row) = "ok"
  /\ images' = images \cup {row}
  /\ last' = Statement("insert", "images", c, row.id, {}, row, "ok")
  /\ UNCHANGED <<profiles, vehicles, mods>>
  /\ UNCHANGED rlvars
  /\ UNCHANGED sysvars
  /\ UNCHANGED callvars

\* update images set ... where id = ...: the rows passing the SELECT and the
\* UPDATE USING policies, the WITH CHECK on the new row, then the constraints
ImagesUpdateTargets(c, id) ==
  {r \in SelImages(c) : r.id = id /\ images_owner_update(c, r)}

ImagesUpdateOutcome(c, id, row) ==
  Outcome(HasGrant(c, "update"), ImagesUpdateTargets(c, id),
          /\ images_owner_update(c, row)
          /\ images_owner_select(c, row) \/ images_public_select(c, row),
          (row.id = id \/ row.id \notin Ids(images))
            /\ ConstraintsHold(profiles, vehicles, mods, (images \ ImagesUpdateTargets(c, id)) \cup {row}))

ImagesUpdate(c, id, row) ==
  /\ ImagesUpdateOutcome(c, id, row) = "ok"
  /\ images' = (images \ ImagesUpdateTargets(c, id)) \cup {row}
  /\ last' = Statement("update", "images", c, id, ImagesUpdateTargets(c, id), row, "ok")
  /\ UNCHANGED <<profiles, vehicles, mods>>
  /\ UNCHANGED rlvars
  /\ UNCHANGED sysvars
  /\ UNCHANGED callvars

\* delete from images where id = ...: the rows passing the SELECT and the
\* DELETE USING policies; the foreign keys cascade
ImagesDeleteTargets(c, id) ==
  {r \in SelImages(c) : r.id = id /\ images_owner_delete(c, r)}

ImagesDeleteOutcome(c, id) ==
  Outcome(HasGrant(c, "delete"), ImagesDeleteTargets(c, id), TRUE, TRUE)

ImagesDelete(c, id) ==
  /\ ImagesDeleteOutcome(c, id) = "ok"
  /\ images' = images \ ImagesDeleteTargets(c, id)
  /\ UNCHANGED <<profiles, vehicles, mods>>
  /\ last' = Statement("delete", "images", c, id, ImagesDeleteTargets(c, id), NoRow, "ok")
  /\ UNCHANGED rlvars
  /\ UNCHANGED sysvars
  /\ UNCHANGED callvars

InitDB ==
  /\ now = 0
  /\ tx = EmptyBag
  /\ rate_limit_buckets = {}
  /\ consumed = [k \in Keys |-> <<>>]
  /\ calls = 0
  /\ result = NoResult
  /\ profiles = {}
  /\ vehicles = {}
  /\ mods = {}
  /\ images = {}
  /\ last = NoStatement
  /\ inflight = <<>>
  /\ request = NoRequest
  /\ effects = <<>>
  /\ response = NoResponse
  /\ schema = NoSchema
  /\ objects = {}

NextDB ==
  \/ \E c \in Callers, row \in ProfileRows : ProfilesInsert(c, row)
  \/ \E c \in Callers, id \in Users, row \in ProfileRows : ProfilesUpdate(c, id, row)
  \/ \E c \in Callers, id \in Users : ProfilesDelete(c, id)
  \/ \E c \in Callers, row \in VehicleRows : VehiclesInsert(c, row)
  \/ \E c \in Callers, id \in VehicleIds, row \in VehicleRows : VehiclesUpdate(c, id, row)
  \/ \E c \in Callers, id \in VehicleIds : VehiclesDelete(c, id)
  \/ \E c \in Callers, row \in ModRows : ModsInsert(c, row)
  \/ \E c \in Callers, id \in ModIds, row \in ModRows : ModsUpdate(c, id, row)
  \/ \E c \in Callers, id \in ModIds : ModsDelete(c, id)
  \/ \E c \in Callers, row \in ImageRows : ImagesInsert(c, row)
  \/ \E c \in Callers, id \in ImageIds, row \in ImageRows : ImagesUpdate(c, id, row)
  \/ \E c \in Callers, id \in ImageIds : ImagesDelete(c, id)

SpecDB == InitDB /\ [][NextDB]_vars

(***************************************************************************)
(* Properties of the row-level security policies                           *)
(***************************************************************************)
\* the owning profile of a vehicle / of the vehicle of a mod, in tables V, M
VehicleOwners(vid, V) == {v.profile_id : v \in {x \in V : x.id = vid}}

ModOwners(mid, V, M) ==
  UNION {VehicleOwners(m.vehicle_id, V) : m \in {x \in M : x.id = mid}}

ImageParentOwners(row, V, M) ==
  (IF row.vehicle_id # NULL THEN VehicleOwners(row.vehicle_id, V) ELSE {})
    \cup (IF row.mod_id # NULL THEN ModOwners(row.mod_id, V, M) ELSE {})

\* the root profiles reached from a row of the named table by its parent references
Roots(table, row, V, M) ==
  CASE table = "profiles" -> {row.id}
    [] table = "vehicles" -> {row.profile_id}
    [] table = "mods" -> VehicleOwners(row.vehicle_id, V)
    [] table = "images" -> {row.profile_id} \cup ImageParentOwners(row, V, M)

\* an image row tagged with the caller's profile whose parent is owned by another profile
CrossOwner(c, row) ==
  /\ SqlEq(row.profile_id, c.uid)
  /\ \E o \in ImageParentOwners(row, vehicles, mods) : o # c.uid

\* C4: an insert or update of an image whose profile_id is the caller but
\* whose vehicle_id or mod_id refers to a vehicle or mod of another profile
\* is rejected (by the owner policy when exactly one parent is set), and no
\* successful statement on images is such a row.
C4_CrossOwnerImageRejected ==
  /\ [](\A c \in Callers, row \in ImageRows :
          CrossOwner(c, row) =>
            /\ ImagesInsertOutcome(c, row) # "ok"
            /\ ((row.vehicle_id = NULL) # (row.mod_id = NULL)) =>
                 ImagesInsertOutcome(c, row) = "rls"
            /\ \A id \in ImageIds :
                 /\ ImagesUpdateOutcome(c, id, row) # "ok"
                 /\ ((row.vehicle_id = NULL) # (row.mod_id = NULL)) =>
                      ImagesUpdateOutcome(c, id, row) \in {"rls", "norows"})
  /\ [][(last'.table = "images" /\ last'.op \in {"insert", "update"} /\ images' # images)
          => ~CrossOwner(last'.caller, last'.row)]_vars

\* A holds an image, B owns a mod, and A's attempt to re-attach the image to
\* B's mod is refused by the policy
C4_Witness ==
  \E i \in images : \E m \in mods :
    /\ i.profile_id = "A"
    /\ ModOwners(m.id, vehicles, mods) = {"B"}
    /\ LET row == [i EXCEPT !.vehicle_id = NULL, !.mod_id = m.id]
       IN /\ CrossOwner(AuthCaller("A"), row)
          /\ ImagesUpdateOutcome(AuthCaller("A"), i.id, row) = "rls"

\* C5: every statement of a caller removes or replaces only rows whose root
\* profile is the caller and adds only rows whose root profile is the
\* caller; the rows rooted at another profile, and their roots, are unchanged.
C5_OwnerOnlyWrites ==
  [][LET u == last'.caller.uid
         Foreign(table, row, V, M) == \E o \in Roots(table, row, V, M) : o # u
     IN /\ \A r \in last'.old : Roots(last'.table, r, vehicles, mods) = {u}
        /\ last'.op \in {"insert", "update"} =>
             Roots(last'.table, last'.row, vehicles', mods') = {u}
        /\ \A r \in profiles : Foreign("profiles", r, vehicles, mods) => r \in profiles'
        /\ \A r \in vehicles : Foreign("vehicles", r, vehicles, mods) => r \in vehicles'
        /\ \A r \in mods :
             Foreign("mods", r, vehicles, mods) =>
               /\ r \in mods'
               /\ Roots("mods", r, vehicles', mods') = Roots("mods", r, vehicles, mods)
        /\ \A r \in images :
             Foreign("images", r, vehicles, mods) =>
               /\ r \in images'
               /\ Roots("images", r, vehicles', mods') = Roots("images", r, vehicles, mods)
        /\ \A r \in profiles' \ profiles : ~Foreign("profiles", r, vehicles', mods')
        /\ \A r \in vehicles' \ vehicles : ~Foreign("vehicles", r, vehicles', mods')
        /\ \A r \in mods' \ mods : ~Foreign("mods", r, vehicles', mods')
        /\ \A r \in images' \ images : ~Foreign("images", r, vehicles', mods')]_vars

\* B owns a vehicle, a mod and an image; A has just deleted a vehicle of its own
C5_Witness ==
  /\ last.op = "delete"
  /\ last.table = "vehicles"
  /\ last.caller = AuthCaller("A")
  /\ \E v \in vehicles : v.profile_id = "B"
  /\ \E m \in mods : ModOwners(m.id, vehicles, mods) = {"B"}
  /\ \E i \in images : i.profile_id = "B"
  /\ \E p \in profiles : p.id = "A"

\* the public predicate of a vehicle on the stored rows
VehicleIsPublic(v) ==
  v.is_public = TRUE /\ \E p \in profiles : p.id = v.profile_id /\ p.username # NULL

ParentVehicles(row) ==
  {v \in vehicles :
     \/ row.vehicle_id # NULL /\ v.id = row.vehicle_id
     \/ row.mod_id # NULL /\ \E m \in mods : m.id = row.mod_id /\ m.vehicle_id = v.id}

AnonReadable(v) ==
  LET ms == {m \in mods : m.vehicle_id = v.id}
      is == {i \in images : v \in ParentVehicles(i)}
  IN ({v} \cap (SelVehicles(AnonCaller) \cup public_vehicles(AnonCaller)))
       \cup (ms \cap (SelMods(AnonCaller) \cup public_mods(AnonCaller)))
       \cup (is \cap (SelImages(AnonCaller) \cup public_images(AnonCaller)))

\* C7: from the statement that sets is_public of a vehicle to false, and as
\* long as it is false, an anonymous read of the tables and of the public_*
\* views returns no row for the vehicle, its mods and their images.
C7_PrivateVehicleUnreadable ==
  /\ [](\A v \in vehicles : v.is_public = FALSE => AnonReadable(v) = {})
  /\ [][(last'.table = "vehicles" /\ last'.op = "update"
           /\ last'.row.is_public = FALSE)
          => (\A v \in vehicles' : v.id = last'.row.id => AnonReadable(v)' = {})]_vars

\* a public vehicle of a published profile, with a mod and an image, has
\* just been made private by its owner
C7_Witness ==
  /\ last.table = "vehicles"
  /\ last.op = "update"
  /\ last.row.is_public = FALSE
  /\ \E o \in last.old : o.is_public = TRUE
  /\ last.row \in vehicles
  /\ \E p \in profiles : p.id = last.row.profile_id /\ p.username # NULL
  /\ \E m \in mods : m.vehicle_id = last.row.id
  /\ \E i \in images : last.row \in ParentVehicles(i)

\* C8: every image row has exactly one of vehicle_id and mod_id set, and no
\* insert or update of a row with both or neither succeeds.
C8_ExactlyOneParent ==
  /\ \A i \in images : (i.vehicle_id = NULL) # (i.mod_id = NULL)
  /\ \A c \in Callers, row \in ImageRows :
       ((row.vehicle_id = NULL) = (row.mod_id = NULL)) =>
         /\ ImagesInsertOutcome(c, row) # "ok"
         /\ \A id \in ImageIds : ImagesUpdateOutcome(c, id, row) # "ok"

\* A owns a vehicle and a mod; an image with both as parents passes the
\* owner policy and is refused by the check constraint
C8_Witness ==
  \E v \in vehicles : \E m \in mods : \E id \in ImageIds :
    /\ v.profile_id = "A"
    /\ m.vehicle_id = v.id
    /\ ImagesInsertOutcome(AuthCaller("A"),
         [id |-> id, profile_id |-> "A", vehicle_id |-> v.id, mod_id |-> m.id])
         = "constraint"

\* C9: each image's profile_id is the profile owning its parent: the
\* vehicle's profile_id, or the profile_id of the vehicle of its mod.
C9_ImageProfileIsParentOwner ==
  \A i \in images : ImageParentOwners(i, vehicles, mods) = {i.profile_id}

\* a mod carrying an image has just been moved to another vehicle
C9_Witness ==
  /\ last.table = "mods"
  /\ last.op = "update"
  /\ \E o \in last.old : o.vehicle_id # last.row.vehicle_id
  /\ \E i \in images : i.mod_id = last.row.id

(***************************************************************************)
(* Reorder functions (0007_reorder_minimal_swap.sql), security invoker     *)
(***************************************************************************)
\* the (sort_order, created_at) of the rows of the sibling configurations
SortKeyInputs ==
  {[sort_order |-> 0, created_at |-> 0], [sort_order |-> 0, created_at |-> 1],
   [sort_order |-> 1, created_at |-> 0]}

ReorderVehicleIds == {"v1", "v2", "v3"}

ReorderModIds == {"m1", "m2", "m3"}

\* the order of the uuid values
IdOrder == <<"m1", "m2", "m3", "v1", "v2", "v3">>

IdRank(id) == CHOOSE n \in 1..Len(IdOrder) : IdOrder[n] = id

\* a session of role authenticated whose auth.uid() is null
NoIdentityCaller == [role |-> "authenticated", uid |-> NULL]

ReorderCallers == Callers \cup {NoIdentityCaller}

DirectionInputs == {"up", "down", "left"}

\* grant execute ... to authenticated; revoked from public and anon
HasExecute(c) == c.role = "authenticated"

\* the rows a SELECT ... FOR UPDATE or an UPDATE of caller c reaches
LockableVehicles(c) == {v \in SelVehicles(c) : vehicles_owner_update(c, v)}

LockableMods(c) == {m \in SelMods(c) : mods_owner_update(c, m)}

\* (sort_order, created_at, id) of a strictly before that of b
SiblingBefore(a, b) ==
  \/ a.sort_order < b.sort_order
  \/ /\ a.sort_order = b.sort_order
     /\ \/ a.created_at < b.created_at
        \/ a.created_at = b.created_at /\ IdRank(a.id) < IdRank(b.id)

\* order by ... limit 1: the candidate closest to the current row
Closest(candidates, p_direction) ==
  {n \in candidates :
     \A o \in candidates :
       o = n \/ (IF p_direction = "up" THEN SiblingBefore(o, n) ELSE SiblingBefore(n, o))}

\* a faulty swap that only writes the target row
SwapSortOrderOverwrite(row, current, neighbor) ==
  [row EXCEPT !.sort_order =
     IF row.id = current.id THEN neighbor.sort_order ELSE row.sort_order]

\* the swap of the sort_order of the rows current and neighbor
SwapSortOrder(row, current, neighbor) ==
  [row EXCEPT !.sort_order =
     IF row.id = current.id THEN neighbor.sort_order
     ELSE IF row.id = neighbor.id THEN current.sort_order
     ELSE row.sort_order]

\* a faulty lookup that reads the vehicle through the public view
ReorderVehicleCurrentPublished(c, p_vehicle_id) ==
  {v \in LockableVehicles(c) \cap public_vehicles(c) :
     SqlEq(v.id, p_vehicle_id) /\ SqlEq(v.profile_id, c.uid)}

\* a faulty lookup that finds the vehicle of any owner
ReorderVehicleCurrentAnyOwner(c, p_vehicle_id) ==
  {v \in vehicles : SqlEq(v.id, p_vehicle_id)}

\* select v.* into v_current ... where v.id = p_vehicle_id and v.profile_id = v_user_id
ReorderVehicleCurrent(c, p_vehicle_id) ==
  {v \in LockableVehicles(c) : SqlEq(v.id, p_vehicle_id) /\ SqlEq(v.profile_id, c.uid)}

\* a faulty neighbor search whose comparison is not strict
ReorderVehicleNeighborNotStrict(c, current, p_direction) ==
  Closest({v \in LockableVehicles(c) :
             /\ SqlEq(v.profile_id, c.uid)
             /\ \/ v = current
                \/ IF p_direction = "up" THEN SiblingBefore(v, current)
                   ELSE SiblingBefore(current, v)},
          p_direction)

ReorderVehicleNeighbor(c, current, p_direction) ==
  Closest({v \in LockableVehicles(c) :
             /\ SqlEq(v.profile_id, c.uid)
             /\ IF p_direction = "up" THEN SiblingBefore(v, current)
                ELSE SiblingBefore(current, v)},
          p_direction)

\* the outcome of the call and the contents of vehicles after it
ReorderVehicleSwapCall(c, p_vehicle_id, p_direction) ==
  LET found == ReorderVehicleCurrent(c, p_vehicle_id)
      current == CHOOSE v \in found : TRUE
      neighbors == ReorderVehicleNeighbor(c, current, p_direction)
      neighbor == CHOOSE v \in neighbors : TRUE
      lockable == LockableVehicles(c)
  IN IF ~HasExecute(c) THEN [outcome |-> "denied", rows |-> vehicles]
     ELSE IF p_direction \notin {"up", "down"} THEN [outcome |-> "raised", rows |-> vehicles]
     ELSE IF c.uid = NULL THEN [outcome |-> "not_found", rows |-> vehicles]
     ELSE IF found = {} THEN [outcome |-> "not_found", rows |-> vehicles]
     ELSE IF neighbors = {} THEN [outcome |-> "boundary", rows |-> vehicles]
     ELSE [outcome |-> "moved",
           rows |-> {IF v \in lockable
                        /\ v.id \in {current.id, neighbor.id}
                        /\ SqlEq(v.profile_id, c.uid)
                     THEN SwapSortOrder(v, current, neighbor)
                     ELSE v : v \in vehicles}]

ReorderVehicleSwapOutcome(c, p_vehicle_id, p_direction) ==
  ReorderVehicleSwapCall(c, p_vehicle_id, p_direction).outcome

ReorderVehicleSwapRows(c, p_vehicle_id, p_direction) ==
  ReorderVehicleSwapCall(c, p_vehicle_id, p_direction).rows

ReorderCall(op, outcome) == [op |-> op, table |-> "none", outcome |-> outcome]

reorder_vehicle_swap(c, p_vehicle_id, p_direction) ==
  LET call == ReorderVehicleSwapCall(c, p_vehicle_id, p_direction)
  IN /\ call.outcome = "moved"
     /\ vehicles' = call.rows
     /\ last' = ReorderCall("reorder_vehicle_swap", call.outcome)
     /\ UNCHANGED <<profiles, mods, images>>
     /\ UNCHANGED rlvars
     /\ UNCHANGED sysvars
     /\ UNCHANGED callvars

\* a faulty lookup that finds the mod of any owner
ReorderModCurrentAnyOwner(c, p_vehicle_id, p_mod_id) ==
  {m \in mods : SqlEq(m.id, p_mod_id)}

\* select m.* into v_current from mods m join vehicles v on v.id = m.vehicle_id
\* where m.id = p_mod_id and m.vehicle_id = p_vehicle_id and v.profile_id = v_user_id
ReorderModCurrent(c, p_vehicle_id, p_mod_id) ==
  {m \in LockableMods(c) :
     /\ SqlEq(m.id, p_mod_id)
     /\ SqlEq(m.vehicle_id, p_vehicle_id)
     /\ \E v \in SelVehicles(c) : SqlEq(v.id, m.vehicle_id) /\ SqlEq(v.profile_id, c.uid)}

ReorderModNeighbor(c, p_vehicle_id, current, p_direction) ==
  Closest({m \in LockableMods(c) :
             /\ SqlEq(m.vehicle_id, p_vehicle_id)
             /\ IF p_direction = "up" THEN SiblingBefore(m, current)
                ELSE SiblingBefore(current, m)},
          p_direction)

\* the outcome of the call and the contents of mods after it
ReorderModSwapCall(c, p_vehicle_id, p_mod_id, p_direction) ==
  LET found == ReorderModCurrent(c, p_vehicle_id, p_mod_id)
      current == CHOOSE m \in found : TRUE
      neighbors == ReorderModNeighbor(c, p_vehicle_id, current, p_direction)
      neighbor == CHOOSE m \in neighbors : TRUE
      lockable == LockableMods(c)
  IN IF ~HasExecute(c) THEN [outcome |-> "denied", rows |-> mods]
     ELSE IF p_direction \notin {"up", "down"} THEN [outcome |-> "raised", rows |-> mods]
     ELSE IF c.uid = NULL THEN [outcome |-> "not_found", rows |-> mods]
     ELSE IF found = {} THEN [outcome |-> "not_found", rows |-> mods]
     ELSE IF neighbors = {} THEN [outcome |-> "boundary", rows |-> mods]
     ELSE [outcome |-> "moved",
           rows |-> {IF m \in lockable
                        /\ m.id \in {current.id, neighbor.id}
                        /\ SqlEq(m.vehicle_id, p_vehicle_id)
                     THEN SwapSortOrder(m, current, neighbor)
                     ELSE m : m \in mods}]

ReorderModSwapOutcome(c, p_vehicle_id, p_mod_id, p_direction) ==
  ReorderModSwapCall(c, p_vehicle_id, p_mod_id, p_direction).outcome

ReorderModSwapRows(c, p_vehicle_id, p_mod_id, p_direction) ==
  ReorderModSwapCall(c, p_vehicle_id, p_mod_id, p_direction).rows

reorder_mod_swap(c, p_vehicle_id, p_mod_id, p_direction) ==
  LET call == ReorderModSwapCall(c, p_vehicle_id, p_mod_id, p_direction)
  IN /\ call.outcome = "moved"
     /\ mods' = call.rows
     /\ last' = ReorderCall("reorder_mod_swap", call.outcome)
     /\ UNCHANGED <<profiles, vehicles, images>>
     /\ UNCHANGED rlvars
     /\ UNCHANGED sysvars
     /\ UNCHANGED callvars

\* the sibling configurations: every table of vehicles (without mods), and
\* every table of mods under three vehicles of which A owns two and B one
Absent == [present |-> FALSE, parent |-> NULL, key |-> [sort_order |-> 0, created_at |-> 0]]

VehicleTables ==
  {{[id |-> id, profile_id |-> f[id].parent, is_public |-> TRUE,
     sort_order |-> f[id].key.sort_order, created_at |-> f[id].key.created_at] :
      id \in {x \in ReorderVehicleIds : f[x].present}} :
     f \in [ReorderVehicleIds ->
              {Absent} \cup [present : {TRUE}, parent : Users, key : SortKeyInputs]]}

ModTables ==
  {{[id |-> id, vehicle_id |-> f[id].parent,
     sort_order |-> f[id].key.sort_order, created_at |-> f[id].key.created_at] :
      id \in {x \in ReorderModIds : f[x].present}} :
     f \in [ReorderModIds ->
              {Absent} \cup [present : {TRUE}, parent : ReorderVehicleIds, key : SortKeyInputs]]}

GarageVehicles ==
  {[id |-> "v1", profile_id |-> "A", is_public |-> TRUE, sort_order |-> 0, created_at |-> 0],
   [id |-> "v2", profile_id |-> "A", is_public |-> TRUE, sort_order |-> 1, created_at |-> 0],
   [id |-> "v3", profile_id |-> "B", is_public |-> TRUE, sort_order |-> 0, created_at |-> 0]}

InitReorder ==
  /\ now = 0
  /\ tx = EmptyBag
  /\ rate_limit_buckets = {}
  /\ consumed = [k \in Keys |-> <<>>]
  /\ calls = 0
  /\ result = NoResult
  /\ profiles = {[id |-> "A", username |-> "al"], [id |-> "B", username |-> NULL]}
  /\ \/ vehicles \in VehicleTables /\ mods = {}
     \/ vehicles = GarageVehicles /\ mods \in ModTables
  /\ images = {}
  /\ last = NoStatement
  /\ inflight = <<>>
  /\ request = NoRequest
  /\ effects = <<>>
  /\ response = NoResponse
  /\ schema = NoSchema
  /\ objects = {}

NextReorder ==
  \/ \E c \in ReorderCallers, id \in ReorderVehicleIds, d \in DirectionInputs :
       reorder_vehicle_swap(c, id, d)
  \/ \E c \in ReorderCallers, vid \in ReorderVehicleIds, mid \in ReorderModIds,
        d \in DirectionInputs :
       reorder_mod_swap(c, vid, mid, d)

SpecReorder == InitReorder /\ [][NextReorder]_vars

(***************************************************************************)
(* Properties of the reorder functions                                     *)
(***************************************************************************)
\* C10: for a caller allowed to execute them, reorder_vehicle_swap and
\* reorder_mod_swap return not_found and leave the tables as they are when
\* the caller has no identity, when no row has the id, and when the row is
\* owned by another profile: the three cases give the same result.
C10_NotFoundIndistinguishable ==
  \A c \in ReorderCallers, d \in {"up", "down"} :
    HasExecute(c) =>
      /\ \A id \in ReorderVehicleIds :
           (\/ c.uid = NULL
            \/ id \notin Ids(vehicles)
            \/ \E o \in VehicleOwners(id, vehicles) : o # c.uid)
           => /\ ReorderVehicleSwapOutcome(c, id, d) = "not_found"
              /\ ReorderVehicleSwapRows(c, id, d) = vehicles
      /\ \A vid \in ReorderVehicleIds, mid \in ReorderModIds :
           (\/ c.uid = NULL
            \/ mid \notin Ids(mods)
            \/ \E o \in ModOwners(mid, vehicles, mods) : o # c.uid)
           => /\ ReorderModSwapOutcome(c, vid, mid, d) = "not_found"
              /\ ReorderModSwapRows(c, vid, mid, d) = mods

\* after a call of reorder_mod_swap: a mod of B, which B itself can reorder,
\* and a mod id without a row both answer not_found to A
C10_Witness ==
  /\ last.op = "reorder_mod_swap"
  /\ \E m \in mods :
       /\ ModOwners(m.id, vehicles, mods) = {"B"}
       /\ ReorderModSwapOutcome(AuthCaller("B"), m.vehicle_id, m.id, "up") \in {"moved", "boundary"}
       /\ ReorderModSwapOutcome(AuthCaller("A"), m.vehicle_id, m.id, "up") = "not_found"
       /\ ReorderModSwapRows(AuthCaller("A"), m.vehicle_id, m.id, "up") = mods
  /\ \E mid \in ReorderModIds \ Ids(mods) :
       /\ ReorderModSwapOutcome(AuthCaller("A"), "v1", mid, "up") = "not_found"
       /\ ReorderModSwapRows(AuthCaller("A"), "v1", mid, "up") = mods

\* the siblings of a call: the caller's vehicles, the mods of one vehicle
VehicleSiblings(c, table) == {v \in table : SqlEq(v.profile_id, c.uid)}

ModSiblings(p_vehicle_id, table) == {m \in table : SqlEq(m.vehicle_id, p_vehicle_id)}

RowOf(id, table) == CHOOSE r \in table : r.id = id

\* the position of a row among its siblings in the order (sort_order, created_at, id)
Position(row, siblings) == Cardinality({o \in siblings : SiblingBefore(o, row)})

\* from siblings to after the row id has moved exactly one position in the
\* direction, past its former predecessor or successor, the others keeping theirs
MovedOnePosition(id, p_direction, siblings, after) ==
  LET current == RowOf(id, siblings)
      target == Position(current, siblings) + (IF p_direction = "up" THEN -1 ELSE 1)
  IN \E adjacent \in siblings :
       /\ Position(adjacent, siblings) = target
       /\ Ids(after) = Ids(siblings)
       /\ Position(RowOf(id, after), after) = target
       /\ Position(RowOf(adjacent.id, after), after) = Position(current, siblings)
       /\ \A o \in siblings \ {current, adjacent} :
            Position(RowOf(o.id, after), after) = Position(o, siblings)

\* C11: a reorder call that returns moved has moved the target exactly one
\* position in the order (sort_order, created_at, id) of its siblings: up puts
\* it immediately before its former predecessor, down immediately after its
\* former successor, the other siblings keep their relative order; also when
\* siblings share a sort_order.
C11_MovedOnePosition ==
  \A c \in ReorderCallers, d \in {"up", "down"} :
    /\ \A id \in ReorderVehicleIds :
         ReorderVehicleSwapOutcome(c, id, d) = "moved" =>
           MovedOnePosition(id, d, VehicleSiblings(c, vehicles),
                            VehicleSiblings(c, ReorderVehicleSwapRows(c, id, d)))
    /\ \A vid \in ReorderVehicleIds, mid \in ReorderModIds :
         ReorderModSwapOutcome(c, vid, mid, d) = "moved" =>
           MovedOnePosition(mid, d, ModSiblings(vid, mods),
                            ModSiblings(vid, ReorderModSwapRows(c, vid, mid, d)))

\* the row is the first of its siblings for up, the last for down
AtBoundary(row, p_direction, siblings) ==
  Position(row, siblings) = (IF p_direction = "up" THEN 0 ELSE Cardinality(siblings) - 1)

\* C12: up on the first sibling of the order, or down on the last, returns
\* boundary and leaves every row as it is, so that repeating the call finds
\* the same state and gives the same outcome.
C12_BoundaryIdempotent ==
  \A u \in Users, d \in {"up", "down"} :
    /\ \A v \in VehicleSiblings(AuthCaller(u), vehicles) :
         AtBoundary(v, d, VehicleSiblings(AuthCaller(u), vehicles)) =>
           /\ ReorderVehicleSwapOutcome(AuthCaller(u), v.id, d) = "boundary"
           /\ ReorderVehicleSwapRows(AuthCaller(u), v.id, d) = vehicles
    /\ \A m \in mods :
         (ModOwners(m.id, vehicles, mods) = {u}
            /\ AtBoundary(m, d, ModSiblings(m.vehicle_id, mods))) =>
           /\ ReorderModSwapOutcome(AuthCaller(u), m.vehicle_id, m.id, d) = "boundary"
           /\ ReorderModSwapRows(AuthCaller(u), m.vehicle_id, m.id, d) = mods

\* after a reorder of A's vehicles: A has several, and up on the first of
\* them answers boundary and changes nothing
C12_Witness ==
  /\ last.op = "reorder_vehicle_swap"
  /\ Cardinality(VehicleSiblings(AuthCaller("A"), vehicles)) >= 2
  /\ \E v \in VehicleSiblings(AuthCaller("A"), vehicles) :
       /\ AtBoundary(v, "up", VehicleSiblings(AuthCaller("A"), vehicles))
       /\ ReorderVehicleSwapOutcome(AuthCaller("A"), v.id, "up") = "boundary"
       /\ ReorderVehicleSwapRows(AuthCaller("A"), v.id, "up") = vehicles

\* C13: once reorder(x, up) has returned moved, reorder(x, down) called next
\* gives x and the sibling it was swapped with their original sort_order
\* values and their original relative order.
C13_RoundTrip ==
  [][\A c \in ReorderCallers, id \in ReorderVehicleIds :
       (/\ last'.op = "reorder_vehicle_swap"
        /\ ReorderVehicleSwapOutcome(c, id, "up") = "moved"
        /\ vehicles' = ReorderVehicleSwapRows(c, id, "up"))
       => \A n \in ReorderVehicleNeighbor(c, RowOf(id, vehicles), "up") :
            /\ RowOf(id, ReorderVehicleSwapRows(c, id, "down")').sort_order
                 = RowOf(id, vehicles).sort_order
            /\ RowOf(n.id, ReorderVehicleSwapRows(c, id, "down")').sort_order = n.sort_order
            /\ SiblingBefore(RowOf(n.id, ReorderVehicleSwapRows(c, id, "down")'),
                             RowOf(id, ReorderVehicleSwapRows(c, id, "down")'))]_vars

\* the rows of table that a call returning the table after has changed
Changed(table, after) == {r \in table : r \notin after}

\* table and after differ in the sort_order of at most two rows, which are the
\* row id and a sibling next to it in the order, and which exchanged their values
ExchangedWithNeighbour(id, siblings, table, after) ==
  /\ Ids(after) = Ids(table)
  /\ \A r \in table : [RowOf(r.id, after) EXCEPT !.sort_order = r.sort_order] = r
  /\ Cardinality(Changed(table, after)) <= 2
  /\ Changed(table, after) \subseteq siblings
  /\ \A r \in Changed(table, after) :
       /\ \/ r.id = id
          \/ /\ RowOf(id, table) \in siblings
             /\ Position(r, siblings) - Position(RowOf(id, table), siblings) \in {-1, 1}
       /\ \E q \in Changed(table, after) :
            /\ q # r
            /\ RowOf(r.id, after).sort_order = q.sort_order
            /\ RowOf(q.id, after).sort_order = r.sort_order
  /\ \A r \in table :
       Cardinality({q \in table : q.sort_order = r.sort_order})
         = Cardinality({q \in after : q.sort_order = r.sort_order})

NoThirdHolder(a, b, after) ==
  \A t \in after :
    t.id \notin {a, b} =>
      t.sort_order \notin {RowOf(a, after).sort_order, RowOf(b, after).sort_order}

\* C15: after a reorder that returns moved, neither of the two swapped rows
\* has a sort_order that a third sibling also has.
C15_NoThirdRowValue ==
  \A c \in ReorderCallers, d \in {"up", "down"} :
    /\ \A id \in ReorderVehicleIds :
         ReorderVehicleSwapOutcome(c, id, d) = "moved" =>
           \A n \in ReorderVehicleNeighbor(c, RowOf(id, vehicles), d) :
             NoThirdHolder(id, n.id, VehicleSiblings(c, ReorderVehicleSwapRows(c, id, d)))
    /\ \A vid \in ReorderVehicleIds, mid \in ReorderModIds :
         ReorderModSwapOutcome(c, vid, mid, d) = "moved" =>
           \A n \in ReorderModNeighbor(c, vid, RowOf(mid, mods), d) :
             NoThirdHolder(mid, n.id, ModSiblings(vid, ReorderModSwapRows(c, vid, mid, d)))

(***************************************************************************)
(* Reorder calls as concurrent transactions (0007_reorder_minimal_swap.sql)*)
(***************************************************************************)
\* the transactions that run a reorder call at the same time
Procs == {1, 2}

VehicleCalls ==
  [fn : {"reorder_vehicle_swap"}, caller : {AuthCaller(u) : u \in Users},
   vehicle_id : ReorderVehicleIds, mod_id : {NULL}, direction : {"up", "down"}]

ModCalls ==
  [fn : {"reorder_mod_swap"}, caller : {AuthCaller(u) : u \in Users},
   vehicle_id : ReorderVehicleIds, mod_id : ReorderModIds, direction : {"up", "down"}]

TxCalls == VehicleCalls \cup ModCalls

TxStart(call) ==
  [call |-> call, pc |-> "start", v_current |-> NoRow, v_neighbor |-> NoRow,
   outcome |-> "none"]

GarageMods ==
  {[id |-> "m1", vehicle_id |-> "v1", sort_order |-> 0, created_at |-> 0],
   [id |-> "m2", vehicle_id |-> "v1", sort_order |-> 1, created_at |-> 0],
   [id |-> "m3", vehicle_id |-> "v2", sort_order |-> 0, created_at |-> 0]}

\* a faulty lock key that names the entity instead of the scope
AdvisoryKeyPerEntity(call) ==
  IF call.fn = "reorder_vehicle_swap"
  THEN <<"reorder_vehicle", call.caller.uid, call.vehicle_id>>
  ELSE <<"reorder_mod", call.caller.uid, call.mod_id>>

\* the text hashed for pg_advisory_xact_lock
AdvisoryKey(call) ==
  IF call.fn = "reorder_vehicle_swap"
  THEN <<"reorder_vehicle", call.caller.uid, "">>
  ELSE <<"reorder_mod", call.caller.uid,
         IF call.vehicle_id = NULL THEN "" ELSE call.vehicle_id>>

\* the transaction holds its advisory lock from the lock call to its end
HoldsAdvisory(p) == inflight[p].pc \in {"locked", "current", "neighbor"}

AdvisoryFree(p) ==
  \A q \in Procs \ {p} :
    ~(HoldsAdvisory(q) /\ AdvisoryKey(inflight[q].call) = AdvisoryKey(inflight[p].call))

\* the rows the transaction has locked with FOR UPDATE, as <<table, id>>
RowLocks(p) ==
  LET table == IF inflight[p].call.fn = "reorder_vehicle_swap" THEN "vehicles" ELSE "mods"
  IN (IF inflight[p].pc \in {"current", "neighbor"}
      THEN {<<table, inflight[p].v_current.id>>} ELSE {})
     \cup (IF inflight[p].pc = "neighbor"
           THEN {<<table, inflight[p].v_neighbor.id>>} ELSE {})

\* the rows the next statement of the transaction selects FOR UPDATE
Wanted(p) ==
  LET t == inflight[p]
      call == t.call
  IN IF call.fn = "reorder_vehicle_swap"
     THEN IF t.pc = "locked"
          THEN ReorderVehicleCurrent(call.caller, call.vehicle_id)
          ELSE IF t.pc = "current"
          THEN ReorderVehicleNeighbor(call.caller, t.v_current, call.direction)
          ELSE {}
     ELSE IF t.pc = "locked"
          THEN ReorderModCurrent(call.caller, call.vehicle_id, call.mod_id)
          ELSE IF t.pc = "current"
          THEN ReorderModNeighbor(call.caller, call.vehicle_id, t.v_current, call.direction)
          ELSE {}

WantedLocks(p) ==
  {<<IF inflight[p].call.fn = "reorder_vehicle_swap" THEN "vehicles" ELSE "mods", r.id>> :
     r \in Wanted(p)}

\* the transactions that hold a row lock the next statement of p needs
Blockers(p) == {q \in Procs \ {p} : WantedLocks(p) \cap RowLocks(q) # {}}

\* p waits for q while q waits for p: the deadlock detector aborts p
Deadlocked(p) == \E q \in Blockers(p) : p \in Blockers(q)

TxEnd(p, outcome) ==
  inflight' = [inflight EXCEPT ![p].pc = "done", ![p].outcome = outcome]

\* lines 19-31: the direction and identity checks, then the advisory lock
TxLock(p) ==
  /\ inflight[p].pc = "start"
  /\ IF inflight[p].call.direction \notin {"up", "down"} THEN TxEnd(p, "raised")
     ELSE IF inflight[p].call.caller.uid = NULL THEN TxEnd(p, "not_found")
     ELSE /\ AdvisoryFree(p)
          /\ inflight' = [inflight EXCEPT ![p].pc = "locked"]
  /\ UNCHANGED <<request, effects, response>>
  /\ UNCHANGED dbvars
  /\ UNCHANGED rlvars
  /\ UNCHANGED sysvars

\* lines 33-44: select the current row for update
TxSelectCurrent(p) ==
  /\ inflight[p].pc = "locked"
  /\ IF Wanted(p) = {} THEN TxEnd(p, "not_found")
     ELSE IF Blockers(p) # {}
          THEN Deadlocked(p) /\ TxEnd(p, "raised")
     ELSE \E row \in Wanted(p) :
            inflight' = [inflight EXCEPT ![p].pc = "current", ![p].v_current = row]
  /\ UNCHANGED <<request, effects, response>>
  /\ UNCHANGED dbvars
  /\ UNCHANGED rlvars
  /\ UNCHANGED sysvars

\* lines 46-88: select the neighbor row for update
TxSelectNeighbor(p) ==
  /\ inflight[p].pc = "current"
  /\ IF Wanted(p) = {} THEN TxEnd(p, "boundary")
     ELSE IF Blockers(p) # {}
          THEN Deadlocked(p) /\ TxEnd(p, "raised")
     ELSE \E row \in Wanted(p) :
            inflight' = [inflight EXCEPT ![p].pc = "neighbor", ![p].v_neighbor = row]
  /\ UNCHANGED <<request, effects, response>>
  /\ UNCHANGED dbvars
  /\ UNCHANGED rlvars
  /\ UNCHANGED sysvars

\* lines 90-100: the swap with the values read before, then moved and commit
TxUpdate(p) ==
  LET t == inflight[p]
      call == t.call
  IN /\ t.pc = "neighbor"
     /\ IF call.fn = "reorder_vehicle_swap"
        THEN /\ vehicles' =
                  {IF v \in LockableVehicles(call.caller)
                      /\ v.id \in {t.v_current.id, t.v_neighbor.id}
                      /\ SqlEq(v.profile_id, call.caller.uid)
                   THEN SwapSortOrder(v, t.v_current, t.v_neighbor)
                   ELSE v : v \in vehicles}
             /\ mods' = mods
        ELSE /\ mods' =
                  {IF m \in LockableMods(call.caller)
                      /\ m.id \in {t.v_current.id, t.v_neighbor.id}
                      /\ SqlEq(m.vehicle_id, call.vehicle_id)
                   THEN SwapSortOrder(m, t.v_current, t.v_neighbor)
                   ELSE m : m \in mods}
             /\ vehicles' = vehicles
     /\ TxEnd(p, "moved")
     /\ last' = ReorderCall(call.fn, "moved")
     /\ UNCHANGED <<profiles, images>>
     /\ UNCHANGED <<request, effects, response>>
     /\ UNCHANGED rlvars
     /\ UNCHANGED sysvars

InitReorderTx ==
  /\ now = 0
  /\ tx = EmptyBag
  /\ rate_limit_buckets = {}
  /\ consumed = [k \in Keys |-> <<>>]
  /\ calls = 0
  /\ result = NoResult
  /\ profiles = {[id |-> "A", username |-> "al"], [id |-> "B", username |-> NULL]}
  /\ vehicles = GarageVehicles
  /\ mods = GarageMods
  /\ images = {}
  /\ last = NoStatement
  /\ inflight \in [Procs -> {TxStart(call) : call \in TxCalls}]
  /\ request = NoRequest
  /\ effects = <<>>
  /\ response = NoResponse
  /\ schema = NoSchema
  /\ objects = {}

NextReorderTx ==
  \E p \in Procs :
    \/ TxLock(p)
    \/ TxSelectCurrent(p)
    \/ TxSelectNeighbor(p)
    \/ TxUpdate(p)

SpecReorderTx == InitReorderTx /\ [][NextReorderTx]_vars

\* the outcome and the tables of the call executed alone on the present tables
AloneOutcome(call) ==
  IF call.fn = "reorder_vehicle_swap"
  THEN ReorderVehicleSwapOutcome(call.caller, call.vehicle_id, call.direction)
  ELSE ReorderModSwapOutcome(call.caller, call.vehicle_id, call.mod_id, call.direction)

AloneVehicles(call) ==
  IF call.fn = "reorder_vehicle_swap"
  THEN ReorderVehicleSwapRows(call.caller, call.vehicle_id, call.direction)
  ELSE vehicles

AloneMods(call) ==
  IF call.fn = "reorder_vehicle_swap" THEN mods
  ELSE ReorderModSwapRows(call.caller, call.vehicle_id, call.mod_id, call.direction)

\* C16: two reorder calls of one owner on one scope are never both past
\* their advisory lock, and every call ends with the outcome and the tables
\* that the whole call executed alone at that moment gives: the calls are
\* equivalent to their execution one at a time, in the order they end.
C16_OneInFlightSerial ==
  /\ [](\A p, q \in Procs :
          (p # q /\ HoldsAdvisory(p) /\ HoldsAdvisory(q)) =>
            \/ inflight[p].call.fn # inflight[q].call.fn
            \/ inflight[p].call.caller # inflight[q].call.caller
            \/ /\ inflight[p].call.fn = "reorder_mod_swap"
               /\ inflight[p].call.vehicle_id # inflight[q].call.vehicle_id)
  /\ [][\A p \in Procs :
          (inflight[p].pc # "done" /\ inflight'[p].pc = "done") =>
            /\ inflight'[p].outcome = AloneOutcome(inflight[p].call)
            /\ vehicles' = AloneVehicles(inflight[p].call)
            /\ mods' = AloneMods(inflight[p].call)]_vars

\* both calls are A's on its vehicles; one has ended with moved and the other,
\* which waited for the lock, has read a row that the first one changed
C16_Witness ==
  \E p, q \in Procs :
    /\ p # q
    /\ AdvisoryKey(inflight[p].call) = AdvisoryKey(inflight[q].call)
    /\ inflight[p].call.fn = "reorder_vehicle_swap"
    /\ inflight[p].pc = "done"
    /\ inflight[p].outcome = "moved"
    /\ inflight[q].pc = "current"
    /\ inflight[q].v_current \notin GarageVehicles

(***************************************************************************)
(* enforceDurableRateLimit (rate-limit.ts)                                 *)
(***************************************************************************)
\* the most targets one call names (ip, identifier, email)
MaxTargets == 3

RetryAfterInputs == {0, 2, 5}

\* what client.rpc("rate_limit_consume") can answer: { data, error }
ConsumeResponses ==
  {[error |-> TRUE, typeof_allowed |-> "undefined", allowed |-> FALSE, retry_after_seconds |-> 0],
   [error |-> FALSE, typeof_allowed |-> "undefined", allowed |-> FALSE, retry_after_seconds |-> 0],
   [error |-> FALSE, typeof_allowed |-> "boolean", allowed |-> TRUE, retry_after_seconds |-> 0]}
  \cup {[error |-> FALSE, typeof_allowed |-> "boolean", allowed |-> FALSE,
         retry_after_seconds |-> r] : r \in RetryAfterInputs}

TargetResponses == UNION {[1..n -> ConsumeResponses] : n \in 0..MaxTargets}

\* consumeBucket: throws on an error or an invalid row, else the result
consumeBucket(rpc) ==
  IF rpc.error
  THEN [threw |-> "Rate-limit backend unavailable.", allowed |-> FALSE, retryAfterSeconds |-> 0]
  ELSE IF rpc.typeof_allowed # "boolean"
  THEN [threw |-> "Invalid rate-limit backend response.", allowed |-> FALSE,
        retryAfterSeconds |-> 0]
  ELSE [threw |-> "", allowed |-> rpc.allowed,
        retryAfterSeconds |-> Max(0, rpc.retry_after_seconds)]

RECURSIVE ReduceMax(_, _)

\* a faulty reduce that keeps the first blocked result's value
ReduceFirst(blocked, maxSeconds) ==
  IF blocked = <<>> THEN maxSeconds
  ELSE Max(maxSeconds, Head(blocked).retryAfterSeconds)

\* blocked.reduce((maxSeconds, result) => Math.max(...), 1)
ReduceMax(blocked, maxSeconds) ==
  IF blocked = <<>> THEN maxSeconds
  ELSE ReduceMax(Tail(blocked), Max(maxSeconds, Head(blocked).retryAfterSeconds))

\* new RateLimitExceededError(retryAfterSeconds)
RateLimitExceededError(retryAfterSeconds) ==
  [thrown |-> "RateLimitExceededError", retryAfterSeconds |-> Max(1, retryAfterSeconds)]

Returned == [thrown |-> "", retryAfterSeconds |-> 0]

BackendError == [thrown |-> "Error", retryAfterSeconds |-> 0]

\* enforceDurableRateLimit over the answers of its targets' consume calls
enforceDurableRateLimit(targets) ==
  LET results == [i \in 1..Len(targets) |-> consumeBucket(targets[i])]
      blocked == SelectSeq(results, LAMBDA r : ~r.allowed)
  IN IF Len(targets) = 0 THEN Returned
     ELSE IF \E i \in 1..Len(results) : results[i].threw # "" THEN BackendError
     ELSE IF Len(blocked) = 0 THEN Returned
     ELSE RateLimitExceededError(ReduceMax(blocked, 1))

EnforceRequest(targets) == [handler |-> "enforceDurableRateLimit", targets |-> targets]

\* the call runs to its end
Enforce ==
  /\ request.handler = "enforceDurableRateLimit"
  /\ response = NoResponse
  /\ response' = [status |-> "done", result |-> enforceDurableRateLimit(request.targets)]
  /\ effects' = Append(effects, "rate_limit_consume")
  /\ UNCHANGED <<inflight, request>>
  /\ UNCHANGED dbvars
  /\ UNCHANGED rlvars
  /\ UNCHANGED sysvars

\* the caller reads the result
EnforceReturn ==
  /\ request.handler = "enforceDurableRateLimit"
  /\ response # NoResponse
  /\ response.status = "done"
  /\ response' = [response EXCEPT !.status = "read"]
  /\ UNCHANGED <<inflight, request, effects>>
  /\ UNCHANGED dbvars
  /\ UNCHANGED rlvars
  /\ UNCHANGED sysvars

InitEnforce ==
  /\ now = 0
  /\ tx = EmptyBag
  /\ rate_limit_buckets = {}
  /\ consumed = [k \in Keys |-> <<>>]
  /\ calls = 0
  /\ result = NoResult
  /\ profiles = {}
  /\ vehicles = {}
  /\ mods = {}
  /\ images = {}
  /\ last = NoStatement
  /\ inflight = <<>>
  /\ request \in {EnforceRequest(targets) : targets \in TargetResponses}
  /\ effects = <<>>
  /\ response = NoResponse
  /\ schema = NoSchema
  /\ objects = {}

NextEnforce ==
  \/ Enforce
  \/ EnforceReturn

SpecEnforce == InitEnforce /\ [][NextEnforce]_vars

ReportsAllowed(rpc) == ~rpc.error /\ rpc.typeof_allowed = "boolean" /\ rpc.allowed

ReportsBlocked(rpc) == ~rpc.error /\ rpc.typeof_allowed = "boolean" /\ ~rpc.allowed

Reports(rpc) == ReportsAllowed(rpc) \/ ReportsBlocked(rpc)

\* the largest retry_after_seconds over the blocked targets, and at least 1
BlockedRetryAfter(targets) ==
  CHOOSE n \in RetryAfterInputs \cup {1} :
    /\ n >= 1
    /\ \A i \in 1..Len(targets) : ReportsBlocked(targets[i]) => n >= targets[i].retry_after_seconds
    /\ \/ n = 1
       \/ \E i \in 1..Len(targets) :
            ReportsBlocked(targets[i]) /\ n = targets[i].retry_after_seconds

EnforceDone == request.handler = "enforceDurableRateLimit" /\ response # NoResponse

\* C17 as stated: the call returns exactly when every target reports
\* allowed, and whenever some target reports not allowed it throws
\* RateLimitExceededError with the largest retry_after_seconds of the blocked
\* targets, at least 1.
C17_AnyBlockedRaisesExceeded ==
  EnforceDone =>
    LET targets == request.targets
    IN /\ (response.result.thrown = "") <=>
            (\A i \in 1..Len(targets) : ReportsAllowed(targets[i]))
       /\ (\E i \in 1..Len(targets) : ReportsBlocked(targets[i])) =>
            /\ response.result.thrown = "RateLimitExceededError"
            /\ response.result.retryAfterSeconds = BlockedRetryAfter(targets)

\* C17 amended: the call returns exactly when every target reports allowed;
\* when every consume answers and some target reports not allowed it throws
\* RateLimitExceededError with the largest retry_after_seconds of the blocked
\* targets, at least 1; when some consume fails it throws a plain Error,
\* whatever the other targets report.
C17_BlockedRaisesExceededWhenAllAnswer ==
  EnforceDone =>
    LET targets == request.targets
        answered == \A i \in 1..Len(targets) : Reports(targets[i])
    IN /\ (response.result.thrown = "") <=>
            (\A i \in 1..Len(targets) : ReportsAllowed(targets[i]))
       /\ (answered /\ \E i \in 1..Len(targets) : ReportsBlocked(targets[i])) =>
            /\ response.result.thrown = "RateLimitExceededError"
            /\ response.result.retryAfterSeconds = BlockedRetryAfter(targets)
       /\ ~answered => response.result = BackendError

\* three targets answer; the first is allowed, the others are blocked with
\* 2 and 5 seconds: the error carries 5
C17_Witness ==
  /\ EnforceDone
  /\ Len(request.targets) = 3
  /\ ReportsAllowed(request.targets[1])
  /\ ReportsBlocked(request.targets[2])
  /\ request.targets[2].retry_after_seconds = 5
  /\ ReportsBlocked(request.targets[3])
  /\ request.targets[3].retry_after_seconds = 2
  /\ response.result = RateLimitExceededError(5)

(***************************************************************************)
(* The auth-start route handlers (auth/start/otp, auth/start/oauth)        *)
(***************************************************************************)
AuthStartHandlers == {"auth/start/otp", "auth/start/oauth"}

\* a faulty OTP handler that leaves the email out of its targets
AuthStartScopesNoEmail(handler) == <<"ip", "identifier">>

\* the scopes each handler hands to enforceDurableRateLimit
AuthStartScopes(handler) ==
  IF handler = "auth/start/otp" THEN <<"ip", "identifier", "email">>
  ELSE <<"ip", "identifier">>

\* the body is not JSON, or its email / provider is refused, or it is accepted
BodyInputs == {"not_json", "refused", "accepted"}

AuthStartRequests ==
  UNION {[handler : {h}, body : BodyInputs,
          targets : [1..Len(AuthStartScopes(h)) -> ConsumeResponses],
          signInError : BOOLEAN, pc : {"received"}] : h \in AuthStartHandlers}

\* a faulty catch block that lets the request through when the limiter is down
AuthStartCatchFailOpen(thrown) ==
  IF thrown = "RateLimitExceededError" THEN "429" ELSE ""

\* the try / catch around enforceDurableRateLimit: the status the catch
\* block answers, or "" when nothing was thrown
AuthStartCatch(thrown) ==
  IF thrown = "" THEN ""
  ELSE IF thrown = "RateLimitExceededError" THEN "429"
  ELSE "503"

AuthStartRespond(status) ==
  /\ response' = [status |-> status]
  /\ request' = [request EXCEPT !.pc = "done"]

\* request.json() and the email / provider check
AuthStartValidate ==
  /\ request.handler \in AuthStartHandlers
  /\ request.pc = "received"
  /\ IF request.body \in {"not_json", "refused"}
     THEN AuthStartRespond("400")
     ELSE /\ request' = [request EXCEPT !.pc = "validated"]
          /\ response' = response
  /\ UNCHANGED <<inflight, effects>>
  /\ UNCHANGED dbvars
  /\ UNCHANGED rlvars
  /\ UNCHANGED sysvars

\* try { await enforceDurableRateLimit(...) } catch
AuthStartRateLimit ==
  /\ request.handler \in AuthStartHandlers
  /\ request.pc = "validated"
  /\ effects' = Append(effects, "rate_limit_consume")
  /\ LET status == AuthStartCatch(enforceDurableRateLimit(request.targets).thrown)
     IN IF status # ""
        THEN AuthStartRespond(status)
        ELSE /\ request' = [request EXCEPT !.pc = "allowed"]
             /\ response' = response
  /\ UNCHANGED inflight
  /\ UNCHANGED dbvars
  /\ UNCHANGED rlvars
  /\ UNCHANGED sysvars

\* supabase.auth.signInWithOtp / signInWithOAuth and the answer
AuthStartSignIn ==
  /\ request.handler \in AuthStartHandlers
  /\ request.pc = "allowed"
  /\ effects' = Append(effects, "signIn")
  /\ AuthStartRespond(IF request.signInError THEN "400" ELSE "200")
  /\ UNCHANGED inflight
  /\ UNCHANGED dbvars
  /\ UNCHANGED rlvars
  /\ UNCHANGED sysvars

InitAuthStart ==
  /\ now = 0
  /\ tx = EmptyBag
  /\ rate_limit_buckets = {}
  /\ consumed = [k \in Keys |-> <<>>]
  /\ calls = 0
  /\ result = NoResult
  /\ profiles = {}
  /\ vehicles = {}
  /\ mods = {}
  /\ images = {}
  /\ last = NoStatement
  /\ inflight = <<>>
  /\ request \in AuthStartRequests
  /\ effects = <<>>
  /\ response = NoResponse
  /\ schema = NoSchema
  /\ objects = {}

NextAuthStart ==
  \/ AuthStartValidate
  \/ AuthStartRateLimit
  \/ AuthStartSignIn

SpecAuthStart == InitAuthStart /\ [][NextAuthStart]_vars

\* the rate-limit store cannot be reached for some target of the request
StoreUnreachable ==
  \E i \in 1..Len(request.targets) :
    request.targets[i].error \/ request.targets[i].typeof_allowed # "boolean"

SignInCalled == \E i \in 1..Len(effects) : effects[i] = "signIn"

LimiterConsulted == \E i \in 1..Len(effects) : effects[i] = "rate_limit_consume"

\* C18: a request whose limiter call met an unreachable store never has the
\* sign-in called and is answered 503 once answered; a request blocked with
\* every target answering is answered 429, also without the sign-in.
C18_FailClosed ==
  (request.handler \in AuthStartHandlers /\ LimiterConsulted) =>
    /\ StoreUnreachable =>
         /\ ~SignInCalled
         /\ request.pc = "done"
         /\ response.status = "503"
    /\ (~StoreUnreachable /\ \E i \in 1..Len(request.targets) : ~request.targets[i].allowed) =>
         /\ ~SignInCalled
         /\ request.pc = "done"
         /\ response.status = "429"

\* an OTP request whose email target got an RPC error while the ip target
\* was blocked has been answered 503
C18_Witness ==
  /\ request.handler = "auth/start/otp"
  /\ request.pc = "done"
  /\ LimiterConsulted
  /\ ReportsBlocked(request.targets[1])
  /\ ReportsAllowed(request.targets[2])
  /\ request.targets[3].error
  /\ response.status = "503"

(***************************************************************************)
(* Dashboard server actions (src/app/dashboard/actions.ts)                 *)
(***************************************************************************)
\* the form data of the requests: the action and the entity it aims at
ActionForms ==
  [handler : {"deleteVehicleAction"}, parent_type : {"vehicle"}, parent_id : ReorderVehicleIds]
  \cup [handler : {"uploadImageAction"}, parent_type : {"vehicle"}, parent_id : ReorderVehicleIds]
  \cup [handler : {"uploadImageAction"}, parent_type : {"mod"}, parent_id : {"m1", "m2"}]

\* the session's user (NULL: no session), the form and what the consume
\* calls of the two limiter targets (user, ip) will answer
ActionRequests ==
  {[handler |-> f.handler, parent_type |-> f.parent_type, parent_id |-> f.parent_id,
    userId |-> u, targets |-> t, pc |-> "received"] :
     f \in ActionForms, u \in {NULL, "A"}, t \in [1..2 -> ConsumeResponses]}

ActionCaller == AuthCaller(request.userId)

\* redirectWithStatus(path, { error }) / { status }
ActionRespond(message) ==
  /\ response' = [status |-> "redirect", message |-> message]
  /\ request' = [request EXCEPT !.pc = "done"]

\* getAuthContext, lines 570-579: supabase.auth.getUser()
ActionGetUser ==
  /\ request.handler \notin AuthStartHandlers \cup {"none", "enforceDurableRateLimit"}
  /\ request.pc = "received"
  /\ IF request.userId = NULL
     THEN ActionRespond("/login?next=/dashboard")
     ELSE /\ request' = [request EXCEPT !.pc = "user"]
          /\ response' = response
  /\ UNCHANGED <<inflight, effects>>
  /\ UNCHANGED dbvars
  /\ UNCHANGED rlvars
  /\ UNCHANGED sysvars

\* the row ensureProfileExists upserts
DefaultProfile(userId) == [id |-> userId, username |-> NULL]

\* getAuthContext, line 581: ensureProfileExists
ActionEnsureProfile ==
  /\ request.pc = "user"
  /\ request' = [request EXCEPT !.pc = "context"]
  /\ IF \E p \in SelProfiles(ActionCaller) : p.id = request.userId
     THEN /\ profiles' = profiles
          /\ effects' = effects
     ELSE /\ profiles' = profiles \cup
               {r \in {DefaultProfile(request.userId)} :
                  /\ profiles_owner_insert(ActionCaller, r)
                  /\ r.id \notin Ids(profiles)}
          /\ effects' = Append(effects, "upsert profiles")
  /\ UNCHANGED <<vehicles, mods, images, last>>
  /\ UNCHANGED <<inflight, response>>
  /\ UNCHANGED rlvars
  /\ UNCHANGED sysvars

\* enforceRateLimitOrRedirect, lines 722-751
ActionRateLimit ==
  /\ request.pc = "context"
  /\ effects' = Append(effects, "rate_limit_consume")
  /\ LET thrown == enforceDurableRateLimit(request.targets).thrown
     IN IF thrown = "RateLimitExceededError"
        THEN ActionRespond("Too many requests. Please wait and try again.")
        ELSE IF thrown # ""
        THEN ActionRespond("Request blocked. Please try again shortly.")
        ELSE /\ request' = [request EXCEPT !.pc = "allowed"]
             /\ response' = response
  /\ UNCHANGED inflight
  /\ UNCHANGED dbvars
  /\ UNCHANGED rlvars
  /\ UNCHANGED sysvars

\* getOwnedVehicle, lines 642-659: the rows the caller's select returns
getOwnedVehicle(c, profileId, vehicleId) ==
  {v \in SelVehicles(c) : SqlEq(v.id, vehicleId) /\ SqlEq(v.profile_id, profileId)}

\* uploadImageAction, lines 1604-1608: the mod selected by id alone
ModById(c, modId) == {m \in SelMods(c) : SqlEq(m.id, modId)}

\* the error an action answers when its ownership lookup fails, "" when the
\* caller owns the entity
LookupAnswer(c, handler, parent_type, parent_id) ==
  IF handler = "deleteVehicleAction"
  THEN IF getOwnedVehicle(c, c.uid, parent_id) = {} THEN "Vehicle not found." ELSE ""
  ELSE IF parent_type = "vehicle"
  THEN IF getOwnedVehicle(c, c.uid, parent_id) = {}
       THEN "Vehicle not found for image upload." ELSE ""
  ELSE IF ModById(c, parent_id) = {}
  THEN "Could not verify mod for image upload right now. Please try again."
  ELSE IF \A m \in ModById(c, parent_id) : getOwnedVehicle(c, c.uid, m.vehicle_id) = {}
  THEN "Mod does not belong to your vehicle."
  ELSE ""

\* the ownership lookup of the action
ActionLookup ==
  /\ request.pc = "allowed"
  /\ LET answer == LookupAnswer(ActionCaller, request.handler, request.parent_type,
                                request.parent_id)
     IN IF answer # ""
        THEN ActionRespond(answer)
        ELSE /\ request' = [request EXCEPT !.pc = "owned"]
             /\ response' = response
  /\ UNCHANGED <<inflight, effects>>
  /\ UNCHANGED dbvars
  /\ UNCHANGED rlvars
  /\ UNCHANGED sysvars

UploadedImage ==
  [id |-> "i1", profile_id |-> request.userId,
   vehicle_id |-> IF request.parent_type = "vehicle" THEN request.parent_id ELSE NULL,
   mod_id |-> IF request.parent_type = "mod" THEN request.parent_id ELSE NULL]

\* the write of the action: the delete with its cascade, or the storage
\* upload and the insert into images
ActionWrite ==
  /\ request.pc = "owned"
  /\ IF request.handler = "deleteVehicleAction"
     THEN LET V == vehicles \ VehiclesDeleteTargets(ActionCaller, request.parent_id)
              M == RemainingMods(V)
          IN /\ vehicles' = V
             /\ mods' = M
             /\ images' = RemainingImages(profiles, V, M)
             /\ effects' = Append(effects, "delete vehicles")
             /\ ActionRespond("Vehicle deleted.")
     ELSE /\ images' = images \cup
               {i \in {UploadedImage} : images_owner_insert(ActionCaller, i)}
          /\ effects' = Append(Append(effects, "upload storage"), "insert images")
          /\ ActionRespond("Image uploaded.")
          /\ UNCHANGED <<vehicles, mods>>
  /\ UNCHANGED <<profiles, last>>
  /\ UNCHANGED inflight
  /\ UNCHANGED rlvars
  /\ UNCHANGED sysvars

\* A's own vehicle v1 and B's garage: vehicle v2 with the mod m1
ActionVehicles(isPublic) ==
  {[id |-> "v1", profile_id |-> "A", is_public |-> FALSE,
    sort_order |-> SortOrderDefault, created_at |-> 0],
   [id |-> "v2", profile_id |-> "B", is_public |-> isPublic,
    sort_order |-> SortOrderDefault, created_at |-> 0]}

InitAction ==
  /\ now = 0
  /\ tx = EmptyBag
  /\ rate_limit_buckets = {}
  /\ consumed = [k \in Keys |-> <<>>]
  /\ calls = 0
  /\ result = NoResult
  /\ \E a \in SUBSET {DefaultProfile("A")}, name \in {NULL, "al"} :
       profiles = a \cup {[id |-> "B", username |-> name]}
  /\ \E isPublic \in BOOLEAN :
       vehicles = {v \in ActionVehicles(isPublic) : v.profile_id \in Ids(profiles)}
  /\ mods = {[id |-> "m1", vehicle_id |-> "v2", sort_order |-> SortOrderDefault,
              created_at |-> 0]}
  /\ images = {}
  /\ last = NoStatement
  /\ inflight = <<>>
  /\ request \in ActionRequests
  /\ effects = <<>>
  /\ response = NoResponse
  /\ schema = NoSchema
  /\ objects = {}

NextAction ==
  \/ ActionGetUser
  \/ ActionEnsureProfile
  \/ ActionRateLimit
  \/ ActionLookup
  \/ ActionWrite

SpecAction == InitAction /\ [][NextAction]_vars

\* the statements that write to the data layer
DataLayerWrites == {"upsert profiles", "delete vehicles", "upload storage", "insert images"}

\* C19: every write to the data layer in the effects of a request comes
\* after the limiter call of that request, and that call returned allowed.
C19_LimiterBeforeWrites ==
  \A i \in 1..Len(effects) :
    effects[i] \in DataLayerWrites =>
      /\ \E j \in 1..(i - 1) : effects[j] = "rate_limit_consume"
      /\ enforceDurableRateLimit(request.targets).thrown = ""

\* the ids of the kind that have no row at all
AbsentIds(parent_type) ==
  IF parent_type = "vehicle" THEN ReorderVehicleIds \ Ids(vehicles)
  ELSE {"m1", "m2"} \ Ids(mods)

\* the ids of the kind whose row belongs to another profile than c's
ForeignIds(c, parent_type) ==
  IF parent_type = "vehicle" THEN {v.id : v \in {x \in vehicles : x.profile_id # c.uid}}
  ELSE {m.id : m \in {x \in mods : \A v \in vehicles :
                                     v.id = x.vehicle_id => v.profile_id # c.uid}}

\* C20: an action aimed at an entity of another profile answers what it
\* answers for an id that has no row.
C20_ForeignAsAbsent ==
  \A f \in ActionForms :
    \A foreign \in ForeignIds(AuthCaller("A"), f.parent_type) :
      \A absent \in AbsentIds(f.parent_type) :
        LookupAnswer(AuthCaller("A"), f.handler, f.parent_type, foreign)
          = LookupAnswer(AuthCaller("A"), f.handler, f.parent_type, absent)

(***************************************************************************)
(* Privileges left by the migrations (grant / revoke statements)           *)
(***************************************************************************)
TablePrivileges == {"select", "insert", "update", "delete"}

AllPrivileges == TablePrivileges \cup {"execute"}

EntityTables == {"profiles", "vehicles", "mods", "images"}

PublicViews == {"public_profiles", "public_vehicles", "public_mods", "public_images"}

RateLimitFunctions == {"rate_limit_consume", "rate_limit_cleanup_expired"}

ReorderFunctions == {"reorder_vehicle_swap", "reorder_mod_swap"}

StorageFunctions == {"mygarage_object_owner_can_write", "mygarage_object_is_public_readable"}

SchemaFunctions == RateLimitFunctions \cup ReorderFunctions \cup StorageFunctions

\* the roles a project's default privileges may name for new objects
DefaultGrantees == SUBSET {"anon", "authenticated", "service_role"}

Grant(acl, privileges, objs, roles) == acl \cup (roles \X privileges \X objs)

\* a faulty revoke that leaves the privileges of PUBLIC in place
RevokeNamedRolesOnly(acl, privileges, objs, roles) ==
  acl \ ((roles \ {"public"}) \X privileges \X objs)

Revoke(acl, privileges, objs, roles) == acl \ (roles \X privileges \X objs)

\* create table / view / function for the objects that do not exist yet: the
\* default privileges of the project, and EXECUTE to PUBLIC on a function;
\* create if not exists / create or replace keeps the privileges of an
\* object that exists
Create(s, objs, D) ==
  LET new == objs \ s.created
  IN [s EXCEPT !.created = @ \cup objs,
               !.acl = @ \cup (D \X TablePrivileges \X (new \ SchemaFunctions))
                         \cup ((D \cup {"public"}) \X {"execute"} \X (new \cap SchemaFunctions))]

\* a role acts with its own privileges and those of PUBLIC
HasPrivilege(acl, role, privilege, obj) ==
  <<role, privilege, obj>> \in acl \/ <<"public", privilege, obj>> \in acl

\* 0001_init.sql: the four tables and the grants of lines 901-903
Migration0001(s, D) ==
  LET c == Create(s, EntityTables, D)
  IN [c EXCEPT !.acl =
        Grant(Grant(@, {"select"}, EntityTables, {"anon"}),
              TablePrivileges, EntityTables, {"authenticated"})]

\* 0002_public_views.sql and 0004_fix_anon_column_grants.sql: the views, and
\* select grants to anon on some of the tables and views
MigrationAnonGrants(s, D, G) ==
  LET c == Create(s, PublicViews, D)
  IN [c EXCEPT !.acl = Grant(@, {"select"}, G, {"anon"})]

\* 0003_public_views_security_invoker.sql, lines 3-112
Migration0003(s, D) ==
  LET c == Create(s, PublicViews, D)
  IN [c EXCEPT !.acl =
        Grant(Grant(Revoke(@, {"select"}, EntityTables, {"anon"}),
                    {"select"}, EntityTables, {"anon"}),
              {"select"}, PublicViews, {"anon"})]

\* the policies on storage.objects, their command and their TO roles
StoragePolicies ==
  {[name |-> "mygarage_public_read", command |-> "select",
    roles |-> {"anon", "authenticated"}],
   [name |-> "mygarage_owner_read", command |-> "select", roles |-> {"authenticated"}],
   [name |-> "mygarage_owner_insert", command |-> "insert", roles |-> {"authenticated"}],
   [name |-> "mygarage_owner_update", command |-> "update", roles |-> {"authenticated"}],
   [name |-> "mygarage_owner_delete", command |-> "delete", roles |-> {"authenticated"}]}

\* row-level security on storage.objects: a command of a role is admitted
\* only under a policy created for that command and that role
PolicyAdmits(s, role, command) ==
  \E p \in StoragePolicies :
    p.name \in s.created /\ p.command = command /\ role \in p.roles

\* 0005_storage_mygarage_policies.sql: the two storage functions and the
\* five policies
Migration0005(s, D) ==
  LET c == Create(s, StorageFunctions, D)
  IN [c EXCEPT !.created = @ \cup {p.name : p \in StoragePolicies}]

\* 0006_durable_rate_limit.sql, lines 3-144
Migration0006(s, D) ==
  LET c == Create(s, {"rate_limit_buckets"} \cup RateLimitFunctions, D)
  IN [c EXCEPT !.acl =
        Grant(Grant(Revoke(Revoke(@, AllPrivileges, {"rate_limit_buckets"},
                                  {"anon", "authenticated"}),
                           AllPrivileges, RateLimitFunctions,
                           {"public", "anon", "authenticated"}),
                    TablePrivileges, {"rate_limit_buckets"}, {"service_role"}),
              {"execute"}, RateLimitFunctions, {"service_role"})]

\* 0007_reorder_minimal_swap.sql, lines 3-219
Migration0007(s, D) ==
  LET c == Create(s, ReorderFunctions, D)
  IN [c EXCEPT !.acl =
        Grant(Revoke(@, AllPrivileges, ReorderFunctions, {"public", "anon"}),
              {"execute"}, ReorderFunctions, {"authenticated"})]

\* 0008 without the revoke of lines 25-32
Migration0008GrantsOnly(s, D) ==
  LET c == Create(s, StorageFunctions, D)
  IN [c EXCEPT !.acl =
        Grant(Grant(Revoke(Grant(@, {"select"}, EntityTables \cup PublicViews, {"anon"}),
                           AllPrivileges, StorageFunctions, {"public"}),
                    {"execute"}, {"mygarage_object_owner_can_write"}, {"authenticated"}),
              {"execute"}, {"mygarage_object_is_public_readable"},
              {"anon", "authenticated"})]

\* 0008_least_privilege_anon_and_storage_hardening.sql, lines 25-53, 72-168;
\* the policies of 0005 are dropped and created again with the same commands
\* and roles, or left as they are (lines 170-260)
Migration0008(s, D) ==
  LET c == Create(s, StorageFunctions, D)
  IN [c EXCEPT !.acl =
        Grant(Grant(Revoke(Grant(Revoke(@, AllPrivileges, EntityTables \cup PublicViews,
                                        {"anon"}),
                                 {"select"}, EntityTables \cup PublicViews, {"anon"}),
                           AllPrivileges, StorageFunctions, {"public"}),
                    {"execute"}, {"mygarage_object_owner_can_write"}, {"authenticated"}),
              {"execute"}, {"mygarage_object_is_public_readable"},
              {"anon", "authenticated"})]

\* 0009_fix_rate_limit_consume_ambiguous_window_ends_at.sql, lines 5-96
Migration0009(s, D) ==
  LET c == Create(s, {"rate_limit_consume"}, D)
  IN [c EXCEPT !.acl =
        Grant(Revoke(@, AllPrivileges, {"rate_limit_consume"},
                     {"public", "anon", "authenticated"}),
              {"execute"}, {"rate_limit_consume"}, {"service_role"})]

LastMigration == 9

\* the next migration of supabase/migrations is applied in one transaction
Migrate(D, G) ==
  /\ schema.version < LastMigration
  /\ LET n == schema.version + 1
         s == [schema EXCEPT !.version = n]
     IN schema' = CASE n = 1 -> Migration0001(s, D)
                    [] n \in {2, 4} -> MigrationAnonGrants(s, D, G)
                    [] n = 3 -> Migration0003(s, D)
                    [] n = 5 -> Migration0005(s, D)
                    [] n = 6 -> Migration0006(s, D)
                    [] n = 7 -> Migration0007(s, D)
                    [] n = 8 -> Migration0008(s, D)
                    [] n = 9 -> Migration0009(s, D)
  /\ UNCHANGED objects
  /\ UNCHANGED dbvars
  /\ UNCHANGED rlvars
  /\ UNCHANGED callvars

\* a statement of a role that its privileges admit: a select, insert, update
\* or delete on a table or view, or the call of a function
Access(role, privilege, obj) ==
  /\ obj \in schema.created
  /\ HasPrivilege(schema.acl, role, privilege, obj)
  /\ last' = [op |-> privilege, table |-> obj, role |-> role, outcome |-> "ok"]
  /\ UNCHANGED <<profiles, vehicles, mods, images>>
  /\ UNCHANGED sysvars
  /\ UNCHANGED rlvars
  /\ UNCHANGED callvars

\* a select, insert, update or delete of a role on storage.objects that
\* row-level security admits for some object
StorageAccess(role, command) ==
  /\ PolicyAdmits(schema, role, command)
  /\ last' = [op |-> command, table |-> "storage.objects", role |-> role, outcome |-> "ok"]
  /\ UNCHANGED <<profiles, vehicles, mods, images>>
  /\ UNCHANGED sysvars
  /\ UNCHANGED rlvars
  /\ UNCHANGED callvars

InitSchema ==
  /\ now = 0
  /\ tx = EmptyBag
  /\ rate_limit_buckets = {}
  /\ consumed = [k \in Keys |-> <<>>]
  /\ calls = 0
  /\ result = NoResult
  /\ profiles = {}
  /\ vehicles = {}
  /\ mods = {}
  /\ images = {}
  /\ last = NoStatement
  /\ inflight = <<>>
  /\ request = NoRequest
  /\ effects = <<>>
  /\ response = NoResponse
  /\ schema = NoSchema
  /\ objects = {}

NextSchema ==
  \/ \E D \in DefaultGrantees, G \in SUBSET {"profiles", "public_profiles"} : Migrate(D, G)
  \/ \E role \in {"anon", "authenticated", "service_role"}, privilege \in AllPrivileges,
        obj \in {"rate_limit_buckets", "profiles", "vehicles"} \cup SchemaFunctions :
       Access(role, privilege, obj)
  \/ \E role \in {"anon", "authenticated"}, command \in TablePrivileges :
       StorageAccess(role, command)

SpecSchema == InitSchema /\ [][NextSchema]_vars

RateLimitObjects == {"rate_limit_buckets"} \cup RateLimitFunctions

\* C21: once 0006 is applied, and after every later migration, anon and
\* authenticated hold no privilege on rate_limit_buckets, rate_limit_consume
\* and rate_limit_cleanup_expired, neither their own nor through PUBLIC, and
\* no statement of theirs on these objects is admitted; service_role can
\* call both functions.
C21_RateLimitServiceRoleOnly ==
  /\ schema.version >= 6 =>
       /\ \A role \in {"anon", "authenticated"}, privilege \in AllPrivileges,
             obj \in RateLimitObjects :
            ~HasPrivilege(schema.acl, role, privilege, obj)
       /\ \A fn \in RateLimitFunctions :
            <<"service_role", "execute", fn>> \in schema.acl
  /\ (last # NoStatement /\ last.table \in RateLimitObjects) => last.role = "service_role"

\* 0009 has replaced rate_limit_consume and the service role has called it
C21_Witness ==
  /\ schema.version = 9
  /\ last # NoStatement
  /\ last.table = "rate_limit_consume"
  /\ last.role = "service_role"

\* C22: every stored bucket row satisfies the three check constraints of the
\* table: window_ends_at > window_started_at, expires_at >= window_ends_at
\* and request_count > 0.
C22_BucketRowInvariant ==
  \A r \in rate_limit_buckets :
    /\ r.window_ends_at > r.window_started_at
    /\ r.expires_at >= r.window_ends_at
    /\ r.request_count > 0

\* a row of a clamped one-second window counted twice next to nothing else,
\* after a consume with p_window_seconds 0 or NULL hit the conflict branch
C22_Witness ==
  /\ \E r \in rate_limit_buckets : r.window_seconds = 1 /\ r.request_count = 2
  /\ result # NoResult
  /\ ~result.raised

(***************************************************************************)
(* Storage object paths (0008_least_privilege_anon_and_storage_hardening)  *)
(* An object name is the sequence of its segments between the '/'; the     *)
(* SQL NULL name is the empty sequence.                                    *)
(***************************************************************************)
MaxSegments == 3

Segments == {"avatars", "vehicles", "mods", "A", "B", "v1", "v2", "m1", "f", "..", ""}

NullPath == <<>>

PathInputs == UNION {[1..n -> Segments] : n \in 0..MaxSegments}

\* object_name ~ '(^|/)\.\.(/|$)': some segment is '..'
HasDotDot(object_name) == \E i \in 1..Len(object_name) : object_name[i] = ".."

\* object_name ~ '//': two adjacent separators, an empty segment that is
\* neither the first nor the last
HasDoubleSlash(object_name) ==
  \E i \in 2..(Len(object_name) - 1) : object_name[i] = ""

\* storage.foldername(name): every segment but the last
foldername(name) == SubSeq(name, 1, Len(name) - 1)

\* nullif(storage.filename(name), ''): the last segment, NULL when empty
filename(name) == IF name[Len(name)] = "" THEN NULL ELSE name[Len(name)]

\* mygarage_object_owner_can_write without the two traversal tests, as
\* 0005_storage_policies.sql defined it
mygarage_object_owner_can_write_0005(c, object_name, requester) ==
  /\ requester # NULL
  /\ object_name # NullPath
  /\ LET parts == foldername(object_name)
     IN /\ Len(parts) = 2
        /\ \/ parts[1] = "avatars" /\ parts[2] = requester
           \/ /\ parts[1] = "vehicles"
              /\ \E v \in SelVehicles(c) : v.id = parts[2] /\ v.profile_id = requester
           \/ /\ parts[1] = "mods"
              /\ \E m \in SelMods(c) : \E v \in SelVehicles(c) :
                   v.id = m.vehicle_id /\ m.id = parts[2] /\ v.profile_id = requester

\* mygarage_object_owner_can_write(object_name, requester), security invoker:
\* the vehicles and mods it reads are those row-level security shows to c
mygarage_object_owner_can_write(c, object_name, requester) ==
  /\ requester # NULL
  /\ object_name # NullPath
  /\ ~HasDotDot(object_name)
  /\ ~HasDoubleSlash(object_name)
  /\ LET parts == foldername(object_name)
     IN /\ Len(parts) = 2
        /\ filename(object_name) # NULL
        /\ \/ parts[1] = "avatars" /\ parts[2] = requester
           \/ /\ parts[1] = "vehicles"
              /\ \E v \in SelVehicles(c) : v.id = parts[2] /\ v.profile_id = requester
           \/ /\ parts[1] = "mods"
              /\ \E m \in SelMods(c) : \E v \in SelVehicles(c) :
                   v.id = m.vehicle_id /\ m.id = parts[2] /\ v.profile_id = requester

\* select public.mygarage_object_owner_can_write(object_name, requester)
OwnerCanWriteRequests ==
  [handler : {"mygarage_object_owner_can_write"}, caller : Callers,
   object_name : PathInputs, requester : Users \cup {NULL}]

OwnerCanWrite ==
  /\ request.handler = "mygarage_object_owner_can_write"
  /\ response = NoResponse
  /\ response' =
       [status |-> IF mygarage_object_owner_can_write(request.caller, request.object_name,
                                                      request.requester)
                   THEN "true" ELSE "false"]
  /\ UNCHANGED <<inflight, request, effects>>
  /\ UNCHANGED <<now, tx, rate_limit_buckets, consumed, calls, result>>
  /\ UNCHANGED dbvars
  /\ UNCHANGED sysvars

\* the garages the function is evaluated in: v1 of A is public, v2 is not,
\* and the mod m1 is on either vehicle
InitOwnerWrite ==
  /\ now = 0
  /\ tx = EmptyBag
  /\ rate_limit_buckets = {}
  /\ consumed = [k \in Keys |-> <<>>]
  /\ calls = 0
  /\ result = NoResult
  /\ profiles = {[id |-> "A", username |-> "al"], [id |-> "B", username |-> NULL]}
  /\ \E o \in Users :
       vehicles = {[id |-> "v1", profile_id |-> "A", is_public |-> TRUE,
                    sort_order |-> SortOrderDefault, created_at |-> 0],
                   [id |-> "v2", profile_id |-> o, is_public |-> FALSE,
                    sort_order |-> SortOrderDefault, created_at |-> 0]}
  /\ \E m \in ModRows : mods = {m}
  /\ images = {}
  /\ last = NoStatement
  /\ inflight = <<>>
  /\ request \in OwnerCanWriteRequests
  /\ effects = <<>>
  /\ response = NoResponse
  /\ schema = NoSchema
  /\ objects = {}

NextOwnerWrite == OwnerCanWrite

SpecOwnerWrite == InitOwnerWrite /\ [][NextOwnerWrite]_vars

\* object_name has the form prefix/{id}/file with a non-empty file
PathOf(object_name, prefix, id) ==
  /\ Len(object_name) = 3
  /\ object_name[1] = prefix
  /\ object_name[2] = id
  /\ object_name[3] # ""

\* C23: the function answers true only for avatars/{requester}/file, for
\* vehicles/{id}/file of a vehicle owned by requester and for mods/{id}/file
\* of a mod whose vehicle requester owns; never for a name with a '..'
\* segment or a '//', and never for a NULL requester.
C23_OwnerCanWriteOnlyOwnPaths ==
  response.status = "true" =>
    /\ request.requester # NULL
    /\ ~HasDotDot(request.object_name)
    /\ ~HasDoubleSlash(request.object_name)
    /\ \/ PathOf(request.object_name, "avatars", request.requester)
       \/ \E v \in vehicles :
            /\ v.profile_id = request.requester
            /\ PathOf(request.object_name, "vehicles", v.id)
       \/ \E m \in mods : \E v \in vehicles :
            /\ v.id = m.vehicle_id
            /\ v.profile_id = request.requester
            /\ PathOf(request.object_name, "mods", m.id)

\* B, the owner of the private vehicle v2 carrying m1, is answered true for mods/m1/f
C23_Witness ==
  /\ response.status = "true"
  /\ request.object_name = <<"mods", "m1", "f">>
  /\ request.requester = "B"
  /\ request.caller = AuthCaller("B")

(***************************************************************************)
(* Storage objects of the mygarage bucket and the rows that reference them *)
(***************************************************************************)
\* the object of the private vehicle v2, an avatar of B, and a name with a
\* '..' segment
ObjectNames == {<<"vehicles", "v2", "f">>, <<"avatars", "B", "f">>, <<"avatars", "..", "f">>}

BucketInputs == {"mygarage", "other"}

ObjectInputs == [bucket_id : BucketInputs, name : ObjectNames]

\* what A writes to the profile: avatar_image_path is text, nullable
StorageProfileRows ==
  [id : {"A"}, username : {NULL, "al"},
   avatar_image_path : {NullPath, <<"vehicles", "v2", "f">>, <<"avatars", "..", "f">>}]

\* what a statement writes to the vehicle v1: hero_image_path is text, nullable
StorageVehicleRows ==
  [id : {"v1"}, profile_id : Users, is_public : BOOLEAN,
   hero_image_path : {NullPath, <<"vehicles", "v2", "f">>},
   sort_order : {SortOrderDefault}, created_at : {0}]

\* storage_bucket and storage_path are not null, storage_path is not blank
StorageImageRows ==
  [id : ImageIds, profile_id : Users, vehicle_id : VehicleIds \cup {NULL},
   mod_id : ModIds \cup {NULL}, storage_bucket : BucketInputs,
   storage_path : {<<"vehicles", "v2", "f">>}]

\* a faulty readability test that asks the tables instead of the public views
mygarage_object_is_public_readable_tables(c, object_name) ==
  /\ object_name # NullPath
  /\ ~HasDotDot(object_name)
  /\ ~HasDoubleSlash(object_name)
  /\ \/ \E pp \in SelProfiles(c) : pp.avatar_image_path = object_name
     \/ \E pv \in SelVehicles(c) : pv.hero_image_path = object_name
     \/ \E pi \in SelImages(c) :
          pi.storage_bucket = "mygarage" /\ pi.storage_path = object_name

\* mygarage_object_is_public_readable(object_name), security invoker: the
\* public views as caller c reads them
mygarage_object_is_public_readable(c, object_name) ==
  /\ object_name # NullPath
  /\ ~HasDotDot(object_name)
  /\ ~HasDoubleSlash(object_name)
  /\ \/ \E pp \in public_profiles(c) : pp.avatar_image_path = object_name
     \/ \E pv \in public_vehicles(c) : pv.hero_image_path = object_name
     \/ \E pi \in public_images(c) :
          pi.storage_bucket = "mygarage" /\ pi.storage_path = object_name

\* ---- policies on storage.objects ----
mygarage_public_read(c, o) ==
  /\ c.role \in {"anon", "authenticated"}
  /\ o.bucket_id = "mygarage"
  /\ mygarage_object_is_public_readable(c, o.name)

mygarage_owner_read(c, o) ==
  /\ c.role = "authenticated"
  /\ o.bucket_id = "mygarage"
  /\ mygarage_object_owner_can_write(c, o.name, c.uid)

mygarage_owner_insert(c, o) ==
  /\ c.role = "authenticated"
  /\ o.bucket_id = "mygarage"
  /\ mygarage_object_owner_can_write(c, o.name, c.uid)

mygarage_owner_update(c, o) ==
  /\ c.role = "authenticated"
  /\ o.bucket_id = "mygarage"
  /\ mygarage_object_owner_can_write(c, o.name, c.uid)

mygarage_owner_delete(c, o) ==
  /\ c.role = "authenticated"
  /\ o.bucket_id = "mygarage"
  /\ mygarage_object_owner_can_write(c, o.name, c.uid)

\* the objects a statement of caller c can see
SelObjects(c) == {o \in objects : mygarage_public_read(c, o) \/ mygarage_owner_read(c, o)}

\* ---- statements on storage.objects ----
ObjectsSelect(c, o) ==
  /\ o \in SelObjects(c)
  /\ last' = Statement("select", "objects", c, o.name, {o}, o, "ok")
  /\ UNCHANGED objects
  /\ UNCHANGED schema
  /\ UNCHANGED <<profiles, vehicles, mods, images>>
  /\ UNCHANGED rlvars
  /\ UNCHANGED callvars

ObjectsInsert(c, o) ==
  /\ mygarage_owner_insert(c, o)
  /\ o \notin objects
  /\ objects' = objects \cup {o}
  /\ last' = Statement("insert", "objects", c, o.name, {}, o, "ok")
  /\ UNCHANGED schema
  /\ UNCHANGED <<profiles, vehicles, mods, images>>
  /\ UNCHANGED rlvars
  /\ UNCHANGED callvars

\* update storage.objects set name = ...: a move of the object
ObjectsUpdate(c, o, name) ==
  /\ o \in SelObjects(c)
  /\ mygarage_owner_update(c, o)
  /\ mygarage_owner_update(c, [o EXCEPT !.name = name])
  /\ [o EXCEPT !.name = name] \notin objects \ {o}
  /\ objects' = (objects \ {o}) \cup {[o EXCEPT !.name = name]}
  /\ last' = Statement("update", "objects", c, o.name, {o}, [o EXCEPT !.name = name], "ok")
  /\ UNCHANGED schema
  /\ UNCHANGED <<profiles, vehicles, mods, images>>
  /\ UNCHANGED rlvars
  /\ UNCHANGED callvars

ObjectsDelete(c, o) ==
  /\ o \in SelObjects(c)
  /\ mygarage_owner_delete(c, o)
  /\ objects' = objects \ {o}
  /\ last' = Statement("delete", "objects", c, o.name, {o}, NoRow, "ok")
  /\ UNCHANGED schema
  /\ UNCHANGED <<profiles, vehicles, mods, images>>
  /\ UNCHANGED rlvars
  /\ UNCHANGED callvars

\* A is published and owns the public vehicle v1; B is unpublished and owns
\* the private vehicle v2 with its mod m1; nothing is uploaded yet
InitStorage ==
  /\ now = 0
  /\ tx = EmptyBag
  /\ rate_limit_buckets = {}
  /\ consumed = [k \in Keys |-> <<>>]
  /\ calls = 0
  /\ result = NoResult
  /\ profiles = {[id |-> "A", username |-> "al", avatar_image_path |-> NullPath],
                 [id |-> "B", username |-> NULL, avatar_image_path |-> NullPath]}
  /\ vehicles = {[id |-> "v1", profile_id |-> "A", is_public |-> TRUE,
                  hero_image_path |-> NullPath, sort_order |-> SortOrderDefault,
                  created_at |-> 0],
                 [id |-> "v2", profile_id |-> "B", is_public |-> FALSE,
                  hero_image_path |-> NullPath, sort_order |-> SortOrderDefault,
                  created_at |-> 0]}
  /\ mods = {[id |-> "m1", vehicle_id |-> "v2", sort_order |-> SortOrderDefault,
              created_at |-> 0]}
  /\ images = {}
  /\ last = NoStatement
  /\ inflight = <<>>
  /\ request = NoRequest
  /\ effects = <<>>
  /\ response = NoResponse
  /\ schema = NoSchema
  /\ objects = {}

NextStorage ==
  \/ \E c \in Callers, id \in Users, row \in StorageProfileRows : ProfilesUpdate(c, id, row)
  \/ \E c \in Callers, id \in VehicleIds, row \in StorageVehicleRows : VehiclesUpdate(c, id, row)
  \/ \E c \in Callers, id \in VehicleIds : VehiclesDelete(c, id)
  \/ \E c \in Callers, row \in StorageImageRows : ImagesInsert(c, row)
  \/ \E c \in Callers, id \in ImageIds : ImagesDelete(c, id)
  \/ \E c \in Callers, o \in ObjectInputs : ObjectsSelect(c, o)
  \/ \E c \in Callers, o \in ObjectInputs : ObjectsInsert(c, o)
  \/ \E c \in Callers, o \in ObjectInputs, name \in ObjectNames : ObjectsUpdate(c, o, name)
  \/ \E c \in Callers, o \in ObjectInputs : ObjectsDelete(c, o)

SpecStorage == InitStorage /\ [][NextStorage]_vars

\* name is referenced by published content of the stored rows: the avatar of
\* a profile with a username, the hero image of a public vehicle of such a
\* profile, or the storage_path of an image of such a vehicle or of its mods
ReferencedByProfile(name) ==
  \E p \in profiles : p.username # NULL /\ p.avatar_image_path = name

ReferencedByVehicle(name) ==
  \E v \in vehicles : VehicleIsPublic(v) /\ v.hero_image_path = name

ReferencedByImage(name, buckets) ==
  \E i \in images :
    /\ i.storage_path = name
    /\ i.storage_bucket \in buckets
    /\ \E v \in ParentVehicles(i) : VehicleIsPublic(v)

\* C24 as stated: the function is true exactly when the name is referenced
\* by published content, whatever the name and the image's bucket
C24_ReadableExactlyWhenReferenced ==
  \A c \in Callers, name \in ObjectNames :
    mygarage_object_is_public_readable(c, name)
      <=> \/ ReferencedByProfile(name)
          \/ ReferencedByVehicle(name)
          \/ ReferencedByImage(name, BucketInputs)

\* C24 (amended): for a name without a '..' segment and without '//', the
\* function is true exactly when the name is the avatar of a published
\* profile, the hero image of a publicly visible vehicle or the
\* storage_path of a publicly visible image whose storage_bucket is
\* mygarage, and false for every other name; so an object whose referencing
\* row was deleted, unlinked or made non-public is not readable by an
\* anonymous caller although it is still stored.
C24_ReadableExactlyWhenReferencedInBucket ==
  /\ \A c \in Callers, name \in ObjectNames :
       mygarage_object_is_public_readable(c, name)
         <=> /\ ~HasDotDot(name)
             /\ ~HasDoubleSlash(name)
             /\ \/ ReferencedByProfile(name)
                \/ ReferencedByVehicle(name)
                \/ ReferencedByImage(name, {"mygarage"})
  /\ \A o \in objects :
       o \in SelObjects(AnonCaller)
         <=> /\ o.bucket_id = "mygarage"
             /\ \/ ReferencedByProfile(o.name)
                \/ ReferencedByVehicle(o.name)
                \/ ReferencedByImage(o.name, {"mygarage"})

\* the stored object vehicles/v2/f was the hero image of the public vehicle
\* v1; the last statement made v1 non-public and the object is no longer
\* readable
C24_Witness ==
  /\ [bucket_id |-> "mygarage", name |-> <<"vehicles", "v2", "f">>] \in objects
  /\ last.op = "update"
  /\ last.table = "vehicles"
  /\ \E r \in last.old : r.is_public /\ r.hero_image_path = <<"vehicles", "v2", "f">>
  /\ ~last.row.is_public
  /\ last.row.hero_image_path = <<"vehicles", "v2", "f">>
  /\ \E p \in profiles : p.id = "A" /\ p.username # NULL
  /\ ~mygarage_object_is_public_readable(AnonCaller, <<"vehicles", "v2", "f">>)

AnonWrites ==
  ({"insert", "update", "delete"} \X (EntityTables \cup {"storage.objects"}))
    \cup ({"execute"} \X ReorderFunctions)

\* C25: with every migration applied, anon holds no insert, update or delete
\* privilege on profiles, vehicles, mods and images, no execute privilege on
\* the reorder functions, and no policy admits its insert, update or delete
\* on storage.objects; no such statement of anon is admitted from then on.
C25_AnonReadsOnly ==
  [][schema'.version = LastMigration =>
       /\ \A privilege \in {"insert", "update", "delete"}, t \in EntityTables :
            ~HasPrivilege(schema'.acl, "anon", privilege, t)
       /\ \A fn \in ReorderFunctions : ~HasPrivilege(schema'.acl, "anon", "execute", fn)
       /\ \A command \in {"insert", "update", "delete"} :
            ~PolicyAdmits(schema', "anon", command)
       /\ (schema.version = LastMigration /\ last'.role = "anon")
            => <<last'.op, last'.table>> \notin AnonWrites]_vars

\* the project's default privileges gave anon every privilege on the new
\* tables; with every migration applied anon reads vehicles
C25_Witness ==
  /\ schema.version = LastMigration
  /\ last # NoStatement
  /\ last.role = "anon"
  /\ last.op = "select"
  /\ last.table = "vehicles"

\* some other stored profile has a username equal to that of row ignoring case
UsernameTaken(row) ==
  \E q \in profiles :
    q.id # row.id /\ q.username # NULL /\ row.username # NULL
      /\ Lower(q.username) = Lower(row.username)

\* C26: no two stored profiles have usernames equal ignoring case; an insert
\* or update that would store a taken username is rejected, which leaves the
\* table as it is; a profile with a NULL username is stored whatever the
\* other profiles hold.
C26_UsernameUniqueIgnoringCase ==
  /\ \A p, q \in profiles :
       (p # q /\ p.username # NULL /\ q.username # NULL)
         => Lower(p.username) # Lower(q.username)
  /\ \A c \in Callers, row \in ProfileRows :
       /\ UsernameTaken(row) => /\ ProfilesInsertOutcome(c, row) # "ok"
                                /\ ProfilesUpdateOutcome(c, row.id, row) # "ok"
       /\ (row.username = NULL /\ c = AuthCaller(row.id))
            => IF row.id \in Ids(profiles)
               THEN ProfilesUpdateOutcome(c, row.id, row) = "ok"
               ELSE ProfilesInsertOutcome(c, row) = "ok"

\* A holds the username al, B was just stored with a NULL username next to
\* it, and B's update to Al or al is rejected
C26_Witness ==
  /\ \E p \in profiles : p.id = "A" /\ p.username = "al"
  /\ \E p \in profiles : p.id = "B" /\ p.username = NULL
  /\ last.op = "insert"
  /\ last.table = "profiles"
  /\ last.id = "B"
  /\ ProfilesUpdateOutcome(AuthCaller("B"), "B", [id |-> "B", username |-> "al"]) = "constraint"
  /\ ProfilesUpdateOutcome(AuthCaller("B"), "B", [id |-> "B", username |-> "Al"]) = "constraint"

(***************************************************************************)
(* Profile provisioning: the trigger handle_new_user                       *)
(* (0011_generate_username_on_signup.sql) and ensureProfileExists          *)
(* (src/lib/auth/ensure-profile.ts)                                        *)
(***************************************************************************)
\* the local part of new.email; the empty one stands for a NULL email.  No
\* input holds a character outside [a-z0-9_] after lower(), so the two
\* regexp_replace and the btrim leave it as it is.
EmailInputs == {[local |-> "bob"], [local |-> "Al"], [local |-> ""]}

RECURSIVE Lpad(_, _)
Lpad(s, n) == IF Len(s) >= n THEN s ELSE Lpad("0" \o s, n)

Left(s, n) == IF Len(s) <= n THEN s ELSE SubSeq(s, 1, n)

derive_username_from_email(p_email, p_user_id, p_with_suffix) ==
  LET v_local_part == Lower(p_email.local)
      v_base == IF Len(v_local_part) < 3 THEN "user" ELSE v_local_part
  IN IF p_with_suffix
     THEN Left(v_base, 21) \o "_" \o Lpad(p_user_id, 8)
     ELSE Left(v_base, 30)

\* the row both provisioning paths insert: is_pro takes its default
ProvisionedProfile(userId, username) ==
  [id |-> userId, username |-> username, display_name |-> "My Garage", is_pro |-> FALSE]

\* a faulty upsert that merges the new values into the stored row
InsertOnConflictDoUpdate(table, row) ==
  {r \in table : r.id # row.id} \cup
    {[r EXCEPT !.username = row.username, !.display_name = row.display_name] :
       r \in {q \in table : q.id = row.id}} \cup
    {r \in {row} : row.id \notin Ids(table)}

\* insert ... on conflict (id) do nothing / upsert with ignoreDuplicates
InsertOnConflictDoNothing(table, row) ==
  IF row.id \in Ids(table) THEN table ELSE table \cup {row}

\* what the owner of a profile writes to it
ProvisionRows ==
  [id : Users, username : {NULL, "bob", "bob_0000000A"}, display_name : {"My Garage", "Bob"},
   is_pro : {TRUE}]

Idle == [pc |-> "idle"]

\* the role the trigger function is granted to; as security definer it
\* writes profiles past row-level security
TriggerCaller == [role |-> "supabase_auth_admin", uid |-> NULL]

\* an insert on auth.users fires on_auth_user_created for the new user
HandleNewUserStart(i, userId, email) ==
  /\ inflight[i] = Idle
  /\ inflight' = [inflight EXCEPT ![i] =
       [fn |-> "handle_new_user", id |-> userId, pc |-> "username",
        v_username |-> derive_username_from_email(email, userId, FALSE),
        v_fallback_username |-> derive_username_from_email(email, userId, TRUE)]]
  /\ UNCHANGED <<request, effects, response>>
  /\ UNCHANGED dbvars
  /\ UNCHANGED rlvars
  /\ UNCHANGED sysvars

\* one of the three inserts of handle_new_user (security definer): a stored
\* row of the id ends the trigger, a unique_violation moves to the next
\* candidate username
HandleNewUserInsert(i) ==
  /\ inflight[i].pc \in {"username", "fallback", "null"}
  /\ LET inv == inflight[i]
         row == ProvisionedProfile(inv.id,
                  CASE inv.pc = "username" -> inv.v_username
                    [] inv.pc = "fallback" -> inv.v_fallback_username
                    [] inv.pc = "null" -> NULL)
         conflict == row.id \in Ids(profiles)
         violation == ~conflict /\ ~ConstraintsHold(profiles \cup {row}, vehicles, mods, images)
     IN /\ profiles' = IF violation THEN profiles ELSE InsertOnConflictDoNothing(profiles, row)
        /\ last' = Statement("insert", "profiles", TriggerCaller, row.id, {}, row,
                             IF violation THEN "unique_violation"
                             ELSE IF conflict THEN "nothing" ELSE "ok")
        /\ inflight' = [inflight EXCEPT ![i] =
             IF violation
             THEN [inv EXCEPT !.pc = IF inv.pc = "username" THEN "fallback" ELSE "null"]
             ELSE Idle]
        /\ response' = IF violation THEN response
                       ELSE [status |-> "ok", fn |-> inv.fn, id |-> inv.id]
  /\ UNCHANGED <<vehicles, mods, images>>
  /\ UNCHANGED <<request, effects>>
  /\ UNCHANGED rlvars
  /\ UNCHANGED sysvars

\* ensureProfileExists(supabase, userId) is called with the user's client
EnsureProfileStart(i, userId) ==
  /\ inflight[i] = Idle
  /\ inflight' = [inflight EXCEPT ![i] =
       [fn |-> "ensureProfileExists", id |-> userId, pc |-> "select"]]
  /\ UNCHANGED <<request, effects, response>>
  /\ UNCHANGED dbvars
  /\ UNCHANGED rlvars
  /\ UNCHANGED sysvars

\* lines 12-24: the first select; the stored profile is returned
EnsureProfileSelect(i) ==
  /\ inflight[i].pc = "select"
  /\ LET inv == inflight[i]
         found == \E p \in SelProfiles(AuthCaller(inv.id)) : p.id = inv.id
     IN /\ inflight' = [inflight EXCEPT ![i] = IF found THEN Idle
                                               ELSE [inv EXCEPT !.pc = "upsert"]]
        /\ response' = IF found THEN [status |-> "ok", fn |-> inv.fn, id |-> inv.id]
                       ELSE response
  /\ UNCHANGED <<request, effects>>
  /\ UNCHANGED dbvars
  /\ UNCHANGED rlvars
  /\ UNCHANGED sysvars

\* lines 26-40: upsert with onConflict id and ignoreDuplicates
EnsureProfileUpsert(i) ==
  /\ inflight[i].pc = "upsert"
  /\ LET inv == inflight[i]
         row == ProvisionedProfile(inv.id, NULL)
         conflict == row.id \in Ids(profiles)
         granted == profiles_owner_insert(AuthCaller(inv.id), row)
     IN /\ profiles' = IF granted THEN InsertOnConflictDoNothing(profiles, row) ELSE profiles
        /\ last' = Statement("insert", "profiles", AuthCaller(inv.id), row.id, {}, row,
                             IF ~granted THEN "rls"
                             ELSE IF conflict THEN "nothing" ELSE "ok")
        /\ inflight' = [inflight EXCEPT ![i] = IF granted THEN [inv EXCEPT !.pc = "reselect"]
                                               ELSE Idle]
        /\ response' = IF granted THEN response
                       ELSE [status |-> "error", fn |-> inv.fn, id |-> inv.id]
  /\ UNCHANGED <<vehicles, mods, images>>
  /\ UNCHANGED <<request, effects>>
  /\ UNCHANGED rlvars
  /\ UNCHANGED sysvars

\* lines 42-56: the second select
EnsureProfileReselect(i) ==
  /\ inflight[i].pc = "reselect"
  /\ LET inv == inflight[i]
         found == \E p \in SelProfiles(AuthCaller(inv.id)) : p.id = inv.id
     IN /\ inflight' = [inflight EXCEPT ![i] = Idle]
        /\ response' = [status |-> IF found THEN "ok" ELSE "error", fn |-> inv.fn,
                        id |-> inv.id]
  /\ UNCHANGED <<request, effects>>
  /\ UNCHANGED dbvars
  /\ UNCHANGED rlvars
  /\ UNCHANGED sysvars

\* B has a profile, A has none yet
InitProvision ==
  /\ now = 0
  /\ tx = EmptyBag
  /\ rate_limit_buckets = {}
  /\ consumed = [k \in Keys |-> <<>>]
  /\ calls = 0
  /\ result = NoResult
  /\ profiles = {ProvisionedProfile("B", NULL)}
  /\ vehicles = {}
  /\ mods = {}
  /\ images = {}
  /\ last = NoStatement
  /\ inflight = [i \in Procs |-> Idle]
  /\ request = NoRequest
  /\ effects = <<>>
  /\ response = NoResponse
  /\ schema = NoSchema
  /\ objects = {}

NextProvision ==
  \/ \E i \in Procs, email \in EmailInputs : HandleNewUserStart(i, "A", email)
  \/ \E i \in Procs : HandleNewUserInsert(i)
  \/ \E i \in Procs : EnsureProfileStart(i, "A")
  \/ \E i \in Procs : EnsureProfileSelect(i)
  \/ \E i \in Procs : EnsureProfileUpsert(i)
  \/ \E i \in Procs : EnsureProfileReselect(i)
  \/ \E c \in Callers, id \in Users, row \in ProvisionRows : ProfilesUpdate(c, id, row)

SpecProvision == InitProvision /\ [][NextProvision]_vars

\* C27: whatever the number and the interleaving of handle_new_user and
\* ensureProfileExists invocations for a user id, at most one profile row of
\* the id is stored, an invocation ends with the row stored, and no step of
\* an invocation changes or removes a stored row.
C27_ProvisioningIdempotent ==
  [][/\ \A p, q \in profiles' : p.id = q.id => p = q
     /\ response'.status # "error"
     /\ response'.status = "ok" => \E p \in profiles' : p.id = response'.id
     /\ inflight' # inflight => \A p \in profiles : p \in profiles']_vars

\* A's row carries the username, display name and is_pro that A stored, and
\* the last statement is the upsert of ensureProfileExists, called before
\* the row existed, that did nothing
C27_Witness ==
  /\ [id |-> "A", username |-> "bob", display_name |-> "Bob", is_pro |-> TRUE] \in profiles
  /\ last.op = "insert"
  /\ last.caller = AuthCaller("A")
  /\ last.outcome = "nothing"

\* parseReorderSwapOutcome of the data layer: the three outcomes, else null
parseReorderSwapOutcome(outcome) ==
  IF outcome \in {"moved", "boundary", "not_found"} THEN outcome ELSE NULL

\* C28: with direction up or down, a call of reorder_vehicle_swap on a
\* vehicle of the caller, or of reorder_mod_swap on a mod of the named
\* vehicle of the caller, returns moved or boundary; every call with
\* direction up or down of a caller who may execute the functions returns
\* moved, boundary or not_found, which the data layer parses to itself.
C28_ReorderOutcomes ==
  \A c \in {x \in ReorderCallers : HasExecute(x)}, d \in {"up", "down"} :
    /\ \A id \in ReorderVehicleIds :
         /\ parseReorderSwapOutcome(ReorderVehicleSwapOutcome(c, id, d)) # NULL
         /\ (\E v \in vehicles : v.id = id /\ SqlEq(v.profile_id, c.uid))
              => ReorderVehicleSwapOutcome(c, id, d) \in {"moved", "boundary"}
    /\ \A vid \in ReorderVehicleIds, mid \in ReorderModIds :
         /\ parseReorderSwapOutcome(ReorderModSwapOutcome(c, vid, mid, d)) # NULL
         /\ (\E m \in mods : \E v \in vehicles :
               /\ m.id = mid /\ m.vehicle_id = vid
               /\ v.id = vid /\ SqlEq(v.profile_id, c.uid))
              => ReorderModSwapOutcome(c, vid, mid, d) \in {"moved", "boundary"}

\* a reorder_vehicle_swap has just returned moved, and of the vehicles of B,
\* the unpublished profile, one is at the boundary for up and one can move up
C28_Witness ==
  /\ last.op = "reorder_vehicle_swap"
  /\ last.outcome = "moved"
  /\ \E v \in vehicles :
       /\ v.profile_id = "B"
       /\ ReorderVehicleSwapOutcome(AuthCaller("B"), v.id, "up") = "boundary"
       /\ \E w \in vehicles :
            w.profile_id = "B" /\ ReorderVehicleSwapOutcome(AuthCaller("B"), w.id, "up") = "moved"

\* name lies under vehicles/{v.id}/ or under mods/{m.id}/ of a mod of v
PathOfVehicle(name, v) ==
  /\ Len(name) = 3
  /\ \/ name[1] = "vehicles" /\ name[2] = v.id
     \/ name[1] = "mods" /\ \E m \in mods : m.vehicle_id = v.id /\ name[2] = m.id

\* C29: no statement of a caller who does not own vehicle v makes a stored
\* object under vehicles/{v}/ or mods/{m}/ of v readable through
\* mygarage_object_is_public_readable while v is not publicly visible.
C29_NoPublicationByOthers ==
  [][\A o \in objects, v \in vehicles :
       (/\ PathOfVehicle(o.name, v)
        /\ v \in vehicles'
        /\ o \in objects'
        /\ ~VehicleIsPublic(v)'
        /\ ~SqlEq(last'.caller.uid, v.profile_id)
        /\ ~mygarage_object_is_public_readable(AnonCaller, o.name))
         => ~mygarage_object_is_public_readable(AnonCaller, o.name)']_vars

\* C30: across the consume calls of one key with one window_seconds, the
\* stored window_started_at never decreases: a consume of a transaction that
\* started in an earlier window than the stored one does not replace the
\* stored window and its count.
C30_WindowNeverMovesBack ==
  [][\A r \in rate_limit_buckets, q \in rate_limit_buckets' :
       (r.bucket_key = q.bucket_key /\ r.window_seconds = q.window_seconds)
         => q.window_started_at >= r.window_started_at]_vars

(***************************************************************************)
(* Cleanup of the rate limit store next to the buckets of other keys       *)
(***************************************************************************)
\* the rows two earlier consumes left for the keys a and b at time 0, with a
\* window of one second and of ten minutes
OtherBuckets == {ExcludedRow("a", 0, 1), ExcludedRow("b", 0, 600)}

InitCleanup ==
  /\ now = 0
  /\ tx = EmptyBag
  /\ rate_limit_buckets = OtherBuckets
  /\ consumed = [k \in Keys |-> <<>>]
  /\ calls = 0
  /\ result = NoResult
  /\ profiles = {}
  /\ vehicles = {}
  /\ mods = {}
  /\ images = {}
  /\ last = NoStatement
  /\ inflight = <<>>
  /\ request = NoRequest
  /\ effects = <<>>
  /\ response = NoResponse
  /\ schema = NoSchema
  /\ objects = {}

NextCleanup ==
  \/ \E d \in ClockSteps : Advance(d)
  \/ \E k \in KeyInputs, m \in MaxRequestsInputs, w \in WindowSecondsInputs :
       ConsumeBegin(k, m, w)
  \/ \E t \in BagToSet(tx), c \in BOOLEAN : ConsumeFinish(t, c)
  \/ \E n \in {<<>>, <<0>>} : CleanupExpired(n)

SpecCleanup == InitCleanup /\ [][NextCleanup]_vars

\* the rows of the keys that a step removes from the store
DeletedBuckets ==
  {r \in rate_limit_buckets :
     \A q \in rate_limit_buckets' : q.bucket_key # r.bucket_key}

\* a step deletes only expired rows, whose window has ended, and no more
\* than the limit of the call
CleanupDeletesExpiredOnly ==
  /\ \A r \in DeletedBuckets : r.expires_at < now /\ r.window_ends_at < now
  /\ Cardinality(DeletedBuckets) <= CleanupMaxRows
  /\ consumed' # consumed => Cardinality(DeletedBuckets) <= ConsumeCleanupBatch
  /\ \A n \in {<<>>, <<0>>, <<ConsumeCleanupBatch>>} :
       \A S \in CleanupChoices(rate_limit_buckets, now, n) :
         /\ Cardinality(S) <= CleanupLimit(n)
         /\ \A r \in S : r.expires_at < now

\* the result of the consume just applied is that of the store that was
\* never cleaned: the count is the number of latest consecutive calls of
\* the window of this call
ResultAsWithoutCleanup ==
  LET log == consumed'[result'.key]
      i == SameWindowSuffix(log)
      M == result'.max_requests
  IN /\ result'.allowed = (i <= M)
     /\ result'.remaining = Max(M - i, 0)

\* C31 as stated: cleanup deletes only expired rows within its limit, and
\* every consume returns what it returns without any cleanup
C31_CleanupNeverChangesResults ==
  [][/\ CleanupDeletesExpiredOnly
     /\ consumed' # consumed => ResultAsWithoutCleanup]_vars

\* C31 (amended): cleanup deletes only rows whose expires_at is earlier than
\* now, at most its limit per call, never a row whose window is current; a
\* consume applied no later than the expires_at of its own window returns
\* the allowed and remaining it returns without any cleanup.
C31_CleanupKeepsResultsUntilExpiry ==
  [][/\ CleanupDeletesExpiredOnly
     /\ (consumed' # consumed
           /\ now <= WindowExpiry(consumed'[result'.key][Len(consumed'[result'.key])]))
          => ResultAsWithoutCleanup]_vars

\* the rows of a and b are both expired, a cleanup limited to one row has
\* deleted the row of a only, and a consume has since been applied to k
C31_Witness ==
  /\ \E r \in rate_limit_buckets : r.bucket_key = "b" /\ r.expires_at < now
  /\ \A r \in rate_limit_buckets : r.bucket_key # "a"
  /\ consumed["k"] # <<>>
  /\ result.key = "k"
  /\ result.allowed

(***************************************************************************)
(* The upsert of rate_limit_consume on a stored row                        *)
(***************************************************************************)
\* the consume just applied found the row rl of its key and left the row r
ConsumeOverwrote(rl, r) ==
  /\ consumed' # consumed
  /\ rl \in BucketOf(result'.key)
  /\ r \in rate_limit_buckets'
  /\ r.bucket_key = result'.key

SameWindowIdentity(rl, r) ==
  /\ rl.window_started_at = r.window_started_at
  /\ rl.window_seconds = r.window_seconds

\* C32: a consume on a key whose stored row has a different window_started_at
\* or a different window_seconds leaves request_count 1 and the
\* window_started_at, window_seconds, window_ends_at and expires_at of its
\* own window in the one row of the key; only when both match is the count
\* the stored count plus exactly 1.
C32_ResetOnOtherWindow ==
  [][\A rl \in rate_limit_buckets, r \in rate_limit_buckets' :
       ConsumeOverwrote(rl, r) =>
         LET w == consumed'[result'.key][Len(consumed'[result'.key])]
         IN /\ r.window_started_at = WindowStartedAt(result'.v_now, r.window_seconds)
            /\ r.window_started_at = w.window_started_at
            /\ r.window_seconds = w.window_seconds
            /\ r.window_ends_at = WindowEnd(w)
            /\ r.expires_at = WindowExpiry(w)
            /\ r.window_ends_at = result'.window_ends_at
            /\ Cardinality({q \in rate_limit_buckets' : q.bucket_key = r.bucket_key}) = 1
            /\ SameWindowIdentity(rl, r) => r.request_count = rl.request_count + 1
            /\ ~SameWindowIdentity(rl, r) => r.request_count = 1]_vars

\* after two consumes of one window a third of the same start and another
\* window_seconds has reset the count to 1
C32_Witness ==
  LET log == consumed["k"]
  IN /\ Len(log) = 3
     /\ log[1] = log[2]
     /\ log[3].window_started_at = log[2].window_started_at
     /\ log[3].window_seconds # log[2].window_seconds
     /\ \E r \in BucketOf("k") :
          r.request_count = 1 /\ r.window_seconds = log[3].window_seconds

(***************************************************************************)
(* The arithmetic of the window of a consume                               *)
(***************************************************************************)
\* the timestamps t1 and t2 fall in the same interval of w seconds counted
\* from the epoch
SameAlignedInterval(t1, t2, w) ==
  t1 \div (w * TicksPerSec) = t2 \div (w * TicksPerSec)

ClampMaxRequestsInputs == {<<>>, <<-1>>, <<0>>, <<MaxRequestsCap + 1>>}

ClampWindowSecondsInputs == {<<>>, <<0>>, <<MaxWindowSeconds + 1>>}

\* rules as the callers configure them (<<>> is a missing number)
RuleInputs ==
  {[maxRequests |-> <<>>, windowMs |-> <<>>],
   [maxRequests |-> <<2>>, windowMs |-> <<1500>>]}

\* normalizeRule: the rule as consumeBucket passes it to rate_limit_consume
normalizeRule(rule) ==
  LET maxRequests == Max(1, Coalesce(rule.maxRequests, 0))
      windowMs == Max(1000, Coalesce(rule.windowMs, 0))
  IN [maxRequests |-> maxRequests,
      windowSeconds |-> Max(1, windowMs \div 1000)]

InitClamp ==
  /\ now = 0
  /\ tx = EmptyBag
  /\ rate_limit_buckets = {}
  /\ consumed = [k \in Keys |-> <<>>]
  /\ calls = 0
  /\ result = NoResult
  /\ profiles = {}
  /\ vehicles = {}
  /\ mods = {}
  /\ images = {}
  /\ last = NoStatement
  /\ inflight = <<>>
  /\ request = NoRequest
  /\ effects = <<>>
  /\ response = NoResponse
  /\ schema = NoSchema
  /\ objects = {}

NextClamp ==
  \/ \E d \in ClockSteps : Advance(d)
  \/ \E k \in KeyInputs, m \in ClampMaxRequestsInputs, w \in ClampWindowSecondsInputs :
       ConsumeBegin(k, m, w)
  \/ \E k \in KeyInputs, rule \in RuleInputs :
       ConsumeBegin(k, <<normalizeRule(rule).maxRequests>>,
                       <<normalizeRule(rule).windowSeconds>>)
  \/ \E t \in BagToSet(tx), c \in BOOLEAN : ConsumeFinish(t, c)
  \/ \E n \in {<<>>, <<0>>} : CleanupExpired(n)

SpecClamp == InitClamp /\ [][NextClamp]_vars

\* the value a p_max_requests is said to behave as
BehavesAsMaxRequests(m) ==
  IF m = <<>> THEN 1
  ELSE IF m[1] <= 0 THEN 1
  ELSE IF m[1] > MaxRequestsCap THEN MaxRequestsCap
  ELSE m[1]

BehavesAsWindowSeconds(w) ==
  IF w = <<>> THEN 1
  ELSE IF w[1] < 1 THEN 1
  ELSE IF w[1] > MaxWindowSeconds THEN MaxWindowSeconds
  ELSE w[1]

\* C34: a step of rate_limit_consume with a max_requests that is NULL or
\* <= 0 is the step of the call with 1, with one above 100000 the step of
\* the call with 100000, likewise window_seconds and [1, 86400]; every
\* result is that of a limit within [1, 100000], and the stored
\* window_seconds is always within [1, 86400].
C34_ParametersClamped ==
  [][/\ \A k \in KeyInputs, m \in ClampMaxRequestsInputs, w \in ClampWindowSecondsInputs :
          ConsumeBegin(k, m, w)
            => ConsumeBegin(k, <<BehavesAsMaxRequests(m)>>, <<BehavesAsWindowSeconds(w)>>)
     /\ \A r \in rate_limit_buckets' :
          r.window_seconds >= 1 /\ r.window_seconds <= MaxWindowSeconds
     /\ consumed' # consumed =>
          /\ result'.max_requests >= 1
          /\ result'.max_requests <= MaxRequestsCap
          /\ \A r \in rate_limit_buckets' :
               r.bucket_key = result'.key =>
                 /\ result'.allowed = (r.request_count <= result'.max_requests)
                 /\ result'.remaining
                      = Max(result'.max_requests - r.request_count, 0)]_vars

\* the third applied call, with max_requests above 100000 and window_seconds
\* above 86400, was allowed with 99999 requests remaining in a window of 86400
C34_Witness ==
  /\ Len(consumed["k"]) = 3
  /\ result.key = "k"
  /\ result.max_requests = MaxRequestsCap
  /\ result.allowed
  /\ result.remaining = MaxRequestsCap - 1
  /\ \E r \in BucketOf("k") : r.window_seconds = MaxWindowSeconds

(***************************************************************************)
(* enforceDurableRateLimit against the rate limit store                    *)
(***************************************************************************)
\* toLowerCase on the identifiers the callers pass
LowerCase(value) == IF value = "B" THEN "b" ELSE value

\* normalizeKeyPart: trimmed and lowered, the fallback when nothing is left
normalizeKeyPart(value, fallback) ==
  LET normalized == LowerCase(Trim(value))
  IN IF normalized = "" THEN fallback ELSE normalized

RateLimitTarget(scope, identifier, maxRequests) ==
  [scope |-> scope, identifier |-> identifier,
   rule |-> [maxRequests |-> <<maxRequests>>, windowMs |-> <<60000>>]]

\* options.targets of the calls: none, the ip alone, the user before and
\* after the ip, and a user without an identifier
TargetLists ==
  {<<>>,
   <<RateLimitTarget("ip", "1", 1)>>,
   <<RateLimitTarget("user", "a", 2), RateLimitTarget("ip", "1", 1)>>,
   <<RateLimitTarget("ip", "1", 1), RateLimitTarget("user", "B", 2)>>,
   <<RateLimitTarget("ip", "1", 1), RateLimitTarget("user", " ", 2)>>}

EnforceOptions == {[action |-> "save", targets |-> ts] : ts \in TargetLists}

\* `rl:${action}:${target.scope}:${target.identifier}` of the normalised parts
BucketKeyOf(action, target) ==
  "rl:" \o normalizeKeyPart(action, "action")
        \o ":" \o normalizeKeyPart(target.scope, "scope")
        \o ":" \o normalizeKeyPart(target.identifier, "unknown")

Pending == [pending |-> TRUE]

\* a consume whose answer never arrives
RpcFailed ==
  [error |-> TRUE, typeof_allowed |-> "undefined", allowed |-> FALSE,
   retry_after_seconds |-> 0]

\* a sequential loop that stops at the first target that is not allowed
StartedTargetsUntilBlocked(inv) ==
  {i \in 1..Len(inv.options.targets) :
     \A j \in 1..(i - 1) :
       /\ inv.rpc[j] # Pending
       /\ ~inv.rpc[j].error
       /\ inv.rpc[j].allowed}

\* targets.map((target) => consumeBucket(...)): every target's call is made
StartedTargets(inv) == {i \in 1..Len(inv.options.targets) : TRUE}

PendingTargets(inv) == {i \in StartedTargets(inv) : inv.rpc[i] = Pending}

\* the call is made: the targets are normalised and their consumes begin
EnforceStart(p, options) ==
  /\ inflight[p] = Idle
  /\ inflight' = [inflight EXCEPT ![p] =
       [pc |-> IF Len(options.targets) = 0 THEN "settled" ELSE "consuming",
        options |-> options,
        rpc |-> [i \in 1..Len(options.targets) |-> Pending],
        applied |-> [i \in 1..Len(options.targets) |-> FALSE],
        outcome |-> Returned]]
  /\ UNCHANGED <<request, effects, response>>
  /\ UNCHANGED rlvars
  /\ UNCHANGED dbvars
  /\ UNCHANGED sysvars

\* consumeBucket of target i: rate_limit_consume runs in the store and
\* answers ("answered"), runs and its answer is lost ("lost"), or does not
\* run ("refused")
EnforceConsumeBucket(p, i, fate) ==
  /\ inflight[p] # Idle
  /\ i \in PendingTargets(inflight[p])
  /\ LET inv == inflight[p]
         target == inv.options.targets[i]
         rule == normalizeRule(target.rule)
         v_max_requests == ClampMaxRequests(<<rule.maxRequests>>)
         excluded == ExcludedRow(BucketKeyOf(inv.options.action, target), now,
                                 ClampWindowSeconds(<<rule.windowSeconds>>))
         row == UpsertRow(rate_limit_buckets, excluded)
         allowed == Allowed(row.request_count, v_max_requests)
         answer == [error |-> FALSE, typeof_allowed |-> "boolean", allowed |-> allowed,
                    retry_after_seconds |->
                      RetryAfterSeconds(allowed, row.window_ends_at, now)]
     IN /\ rate_limit_buckets' =
             IF fate = "refused" THEN rate_limit_buckets
             ELSE Upsert(rate_limit_buckets, excluded)
        /\ inflight' = [inflight EXCEPT
             ![p].rpc[i] = IF fate = "answered" THEN answer ELSE RpcFailed,
             ![p].applied[i] = (fate # "refused")]
  /\ UNCHANGED <<now, tx, consumed, calls, result>>
  /\ UNCHANGED <<request, effects, response>>
  /\ UNCHANGED dbvars
  /\ UNCHANGED sysvars

\* Promise.all settles: it rejects with the first consume that throws and
\* else resolves when every consume has answered
EnforceSettle(p) ==
  /\ inflight[p] # Idle
  /\ inflight[p].pc = "consuming"
  /\ LET inv == inflight[p]
         answers == SelectSeq(inv.rpc, LAMBDA a : a # Pending)
     IN /\ \/ PendingTargets(inv) = {}
           \/ \E n \in 1..Len(answers) : consumeBucket(answers[n]).threw # ""
        /\ inflight' = [inflight EXCEPT
             ![p].pc = "settled",
             ![p].outcome = enforceDurableRateLimit(answers)]
  /\ UNCHANGED <<request, effects, response>>
  /\ UNCHANGED rlvars
  /\ UNCHANGED dbvars
  /\ UNCHANGED sysvars

InitEnforceBuckets ==
  /\ now = 0
  /\ tx = EmptyBag
  /\ rate_limit_buckets = {}
  /\ consumed = [k \in Keys |-> <<>>]
  /\ calls = 0
  /\ result = NoResult
  /\ profiles = {}
  /\ vehicles = {}
  /\ mods = {}
  /\ images = {}
  /\ last = NoStatement
  /\ inflight = [p \in Procs |-> Idle]
  /\ request = NoRequest
  /\ effects = <<>>
  /\ response = NoResponse
  /\ schema = NoSchema
  /\ objects = {}

NextEnforceBuckets ==
  \/ \E p \in Procs, options \in EnforceOptions : EnforceStart(p, options)
  \/ \E p \in Procs, i \in 1..2, fate \in {"answered", "lost", "refused"} :
       EnforceConsumeBucket(p, i, fate)
  \/ \E p \in Procs : EnforceSettle(p)

SpecEnforceBuckets == InitEnforceBuckets /\ [][NextEnforceBuckets]_vars

\* the consumes of the calls so far that ran in the store on bucket k
AppliedConsumes(k) ==
  {c \in Procs \X (1..2) :
     /\ inflight[c[1]] # Idle
     /\ c[2] <= Len(inflight[c[1]].options.targets)
     /\ inflight[c[1]].applied[c[2]]
     /\ BucketKeyOf(inflight[c[1]].options.action,
                    inflight[c[1]].options.targets[c[2]]) = k}

TargetKeys ==
  UNION {{BucketKeyOf(o.action, o.targets[i]) : i \in 1..Len(o.targets)} :
           o \in EnforceOptions}

\* C35: when a call of enforceDurableRateLimit has returned or thrown
\* RateLimitExceededError, rate_limit_consume has run for every one of its
\* targets, blocked or not, and the count of every bucket is the number of
\* targets of the calls that name it: exactly one request per target per call.
C35_EveryTargetConsumedOnce ==
  /\ \A p \in Procs :
       (inflight[p] # Idle /\ inflight[p].pc = "settled"
          /\ inflight[p].outcome # BackendError) =>
         \A i \in 1..Len(inflight[p].options.targets) : inflight[p].applied[i]
  /\ \A r \in rate_limit_buckets : r.bucket_key \in TargetKeys
  /\ \A k \in TargetKeys :
       LET rows == BucketOf(k)
       IN IF AppliedConsumes(k) = {} THEN rows = {}
          ELSE /\ Cardinality(rows) = 1
               /\ \A r \in rows : r.request_count = Cardinality(AppliedConsumes(k))

\* the second call was blocked on its first target, the ip, and threw; its
\* second target, the user b, was consumed all the same and holds one request
C35_Witness ==
  /\ inflight[2] # Idle
  /\ inflight[2].pc = "settled"
  /\ inflight[2].outcome.thrown = "RateLimitExceededError"
  /\ Len(inflight[2].options.targets) = 2
  /\ inflight[2].options.targets[2].identifier = "B"
  /\ ~inflight[2].rpc[1].allowed
  /\ inflight[2].rpc[2].allowed
  /\ \E r \in BucketOf("rl:save:user:b") : r.request_count = 1
  /\ \E r \in BucketOf("rl:save:ip:1") : r.request_count = 2

(***************************************************************************)
(* The order of the limiter and the sign-in in the auth-start handlers     *)
(***************************************************************************)
\* the targets the limits of a handler are kept on
RequiredScopes(handler) ==
  IF handler = "auth/start/otp" THEN {"ip", "identifier", "email"}
  ELSE {"ip", "identifier"}

\* the sign-in was called after the limiter, and every required target was
\* among those consumed and reported allowed
SignInAfterAllAllowed ==
  SignInCalled =>
    /\ \E i, j \in 1..Len(effects) :
         i < j /\ effects[i] = "rate_limit_consume" /\ effects[j] = "signIn"
    /\ \A scope \in RequiredScopes(request.handler) :
         \E i \in 1..Len(request.targets) :
           /\ AuthStartScopes(request.handler)[i] = scope
           /\ ReportsAllowed(request.targets[i])
    /\ \A i \in 1..Len(request.targets) : ReportsAllowed(request.targets[i])

LimitExceeded == \E i \in 1..Len(request.targets) : ReportsBlocked(request.targets[i])

\* C36 as stated: the sign-in is called only after every target has been
\* consumed and reported allowed, and when any limit is exceeded the handler
\* answers 429 without calling the provider.
C36_SignInOnlyAfterAllowed ==
  request.handler \in AuthStartHandlers =>
    /\ SignInAfterAllAllowed
    /\ (LimiterConsulted /\ LimitExceeded) =>
         /\ ~SignInCalled
         /\ request.pc = "done"
         /\ response.status = "429"

\* C36 (amended): the sign-in is called only after every target (ip, browser
\* id, for OTP the email) has been consumed and reported allowed; when a
\* limit is exceeded the provider is not called and the handler answers 429
\* if every consume was answered and 503 if some consume failed.
C36_SignInOnlyAfterAllowedElse429Or503 ==
  request.handler \in AuthStartHandlers =>
    /\ SignInAfterAllAllowed
    /\ (LimiterConsulted /\ LimitExceeded) =>
         /\ ~SignInCalled
         /\ request.pc = "done"
         /\ response.status = IF StoreUnreachable THEN "503" ELSE "429"

\* an OTP request whose ip and browser id were allowed and whose email was
\* blocked has been answered 429 without the sign-in
C36_Witness ==
  /\ request.handler = "auth/start/otp"
  /\ request.pc = "done"
  /\ LimiterConsulted
  /\ ReportsAllowed(request.targets[1])
  /\ ReportsAllowed(request.targets[2])
  /\ ReportsBlocked(request.targets[3])
  /\ ~SignInCalled
  /\ response.status = "429"

(***************************************************************************)
(* The dashboard gate: middleware.ts and getDashboardUserIdOrRedirect      *)
(***************************************************************************)
\* request paths as their pieces: /dashboard, /dashboard/vehicles,
\* /dashboardx and /logout
RequestPaths ==
  {<<"/dashboard">>, <<"/dashboard", "/vehicles">>, <<"/dashboard", "x">>, <<"/logout">>}

\* the x-mygarage-dashboard-user-id header: none, the ids of the users A and
\* B, and a value that is no uuid
NoHeader == <<>>

HeaderInputs == {NoHeader, <<"A">>, <<"B">>, <<"x">>}

\* what supabase.auth.getUser() finds for the cookies: no user, or A
SessionInputs == {<<>>, <<"A">>}

\* request.nextUrl.pathname.startsWith("/dashboard")
StartsWithDashboard(path) == path[1] = "/dashboard"

\* config.matcher: /dashboard/:path*, /auth/callback and /logout
MatcherMatches(path) ==
  \/ path = <<"/dashboard">>
  \/ Len(path) = 2 /\ path[1] = "/dashboard" /\ path[2] = "/vehicles"
  \/ path = <<"/auth/callback">>
  \/ path = <<"/logout">>

\* the pages under src/app/dashboard
IsDashboardPage(path) == path \in {<<"/dashboard">>, <<"/dashboard", "/vehicles">>}

\* UUID_PATTERN.test(userId)
IsUuid(header) == header # NoHeader /\ header[1] \in Users

\* a faulty middleware that forgets requestHeaders.delete
KeepHeader(header) == header

\* requestHeaders.delete(DASHBOARD_USER_ID_HEADER)
DeleteHeader(header) == NoHeader

MiddlewareRequests ==
  [handler : {"middleware"}, path : RequestPaths, client : HeaderInputs,
   header : {NoHeader}, session : SessionInputs, configured : BOOLEAN, pc : {"received"}]

RedirectToLogin == [status |-> "307", location |-> "/login"]

\* the request arrives with the header its client sent
Receive ==
  /\ request.handler = "middleware"
  /\ request.pc = "received"
  /\ request' = [request EXCEPT !.header = request.client, !.pc = "routed"]
  /\ UNCHANGED <<inflight, effects, response>>
  /\ UNCHANGED dbvars
  /\ UNCHANGED rlvars
  /\ UNCHANGED sysvars

\* middleware(request), run for the paths of config.matcher
Middleware ==
  /\ request.handler = "middleware"
  /\ request.pc = "routed"
  /\ IF ~MatcherMatches(request.path) \/ ~StartsWithDashboard(request.path)
     THEN /\ request' = [request EXCEPT !.pc = "forwarded"]
          /\ UNCHANGED <<effects, response>>
     ELSE IF ~request.configured
     THEN /\ request' = [request EXCEPT !.header = DeleteHeader(request.header),
                                        !.pc = "forwarded"]
          /\ UNCHANGED <<effects, response>>
     ELSE IF request.session = <<>>
     THEN /\ request' = [request EXCEPT !.header = DeleteHeader(request.header),
                                        !.pc = "done"]
          /\ effects' = Append(effects, "auth.getUser")
          /\ response' = RedirectToLogin
     ELSE /\ request' = [request EXCEPT !.header = request.session,
                                        !.pc = "forwarded"]
          /\ effects' = Append(effects, "auth.getUser")
          /\ UNCHANGED response
  /\ UNCHANGED inflight
  /\ UNCHANGED dbvars
  /\ UNCHANGED rlvars
  /\ UNCHANGED sysvars

\* a dashboard page or action calls getDashboardUserIdOrRedirect
DashboardPage ==
  /\ request.handler = "middleware"
  /\ request.pc = "forwarded"
  /\ IsDashboardPage(request.path)
  /\ request' = [request EXCEPT !.pc = "done"]
  /\ response' =
       IF IsUuid(request.header)
       THEN [status |-> "200", userId |-> request.header[1]]
       ELSE RedirectToLogin
  /\ UNCHANGED <<inflight, effects>>
  /\ UNCHANGED dbvars
  /\ UNCHANGED rlvars
  /\ UNCHANGED sysvars

\* any other route answers without reading the header
OtherRoute ==
  /\ request.handler = "middleware"
  /\ request.pc = "forwarded"
  /\ ~IsDashboardPage(request.path)
  /\ request' = [request EXCEPT !.pc = "done"]
  /\ response' = [status |-> IF MatcherMatches(request.path) THEN "200" ELSE "404"]
  /\ UNCHANGED <<inflight, effects>>
  /\ UNCHANGED dbvars
  /\ UNCHANGED rlvars
  /\ UNCHANGED sysvars

InitMiddleware ==
  /\ now = 0
  /\ tx = EmptyBag
  /\ rate_limit_buckets = {}
  /\ consumed = [k \in Keys |-> <<>>]
  /\ calls = 0
  /\ result = NoResult
  /\ profiles = {}
  /\ vehicles = {}
  /\ mods = {}
  /\ images = {}
  /\ last = NoStatement
  /\ inflight = <<>>
  /\ request \in MiddlewareRequests
  /\ effects = <<>>
  /\ response = NoResponse
  /\ schema = NoSchema
  /\ objects = {}

NextMiddleware ==
  \/ Receive
  \/ Middleware
  \/ DashboardPage
  \/ OtherRoute

SpecMiddleware == InitMiddleware /\ [][NextMiddleware]_vars

\* what the routes behind the middleware see of a request: the header is
\* absent or the id of the verified session user, a request without a
\* verified user ends redirected to /login, and no dashboard page renders
\* for a user id other than the verified one
GateHolds ==
  /\ request.pc \in {"forwarded", "done"} =>
       request.header = NoHeader \/ request.header = request.session
  /\ (request.pc = "done" /\ request.session = <<>> /\ IsDashboardPage(request.path)) =>
       response = RedirectToLogin
  /\ (request.pc = "done" /\ IsDashboardPage(request.path) /\ response.status = "200") =>
       <<response.userId>> = request.session

\* C37 as stated: for every request whose path starts with /dashboard the
\* header seen downstream is absent or the id of the verified session user,
\* whatever the client sent, and without a verified user the request is
\* redirected to /login and reaches no dashboard page with a user id.
C37_GateForPathsStartingWithDashboard ==
  (request.handler = "middleware" /\ StartsWithDashboard(request.path)) => GateHolds

\* C37 (amended): for every request to /dashboard or to a path under
\* /dashboard/ the header seen downstream is absent or the id of the
\* verified session user, whatever the client sent, and without a verified
\* user the request is redirected to /login and reaches no dashboard page
\* with a user id.
C37_GateForDashboardRoutes ==
  (request.handler = "middleware" /\ StartsWithDashboard(request.path)
     /\ MatcherMatches(request.path)) => GateHolds

\* a client without a session sent the id of B to /dashboard/vehicles while
\* the middleware had no Supabase configuration: the header was removed and
\* the page redirected to /login
C37_Witness ==
  /\ request.handler = "middleware"
  /\ request.path = <<"/dashboard", "/vehicles">>
  /\ request.client = <<"B">>
  /\ request.session = <<>>
  /\ ~request.configured
  /\ request.pc = "done"
  /\ request.header = NoHeader
  /\ response = RedirectToLogin

(***************************************************************************)
(* Denials inside one window, for one key, limit and window size           *)
(***************************************************************************)
\* every call names the limit 1 and the window of one second
FixedMaxRequests == <<1>>

FixedWindowSeconds == <<1>>

\* the key has been consumed once at time 0, which used up its limit
InitDenied ==
  /\ now = 0
  /\ tx = EmptyBag
  /\ rate_limit_buckets = {ExcludedRow("k", 0, ClampWindowSeconds(FixedWindowSeconds))}
  /\ consumed = [k \in Keys |->
                   <<[window_started_at |-> 0,
                      window_seconds |-> ClampWindowSeconds(FixedWindowSeconds)]>>]
  /\ calls = 0
  /\ result = NoResult
  /\ profiles = {}
  /\ vehicles = {}
  /\ mods = {}
  /\ images = {}
  /\ last = NoStatement
  /\ inflight = <<>>
  /\ request = NoRequest
  /\ effects = <<>>
  /\ response = NoResponse
  /\ schema = NoSchema
  /\ objects = {}

NextDenied ==
  \/ \E d \in ClockSteps : Advance(d)
  \/ \E k \in KeyInputs : ConsumeBegin(k, FixedMaxRequests, FixedWindowSeconds)
  \/ \E t \in BagToSet(tx), c \in BOOLEAN : ConsumeFinish(t, c)
  \/ \E n \in {<<>>, <<0>>} : CleanupExpired(n)

SpecDenied == InitDenied /\ [][NextDenied]_vars

\* some earlier consume of the window of the last consume in log was the
\* one after M in a row, so it was denied
DeniedEarlier(log, M) ==
  \E i \in 1..(Len(log) - 1) :
    /\ log[i] = log[Len(log)]
    /\ SameWindowSuffix(SubSeq(log, 1, i)) > M

\* C38: for one key and max_requests, a consume of a window in which an
\* earlier consume was denied is denied too, with remaining 0; a denied
\* consume still adds 1 to request_count, and request_count never decreases
\* while the row stays in one window (stated for the consumes applied
\* before the expires_at of their window).
C38_DeniedStaysDenied ==
  [][(consumed' # consumed
        /\ now <= WindowExpiry(consumed'[result'.key][Len(consumed'[result'.key])])) =>
       LET log == consumed'[result'.key]
           M == result'.max_requests
       IN /\ DeniedEarlier(log, M) =>
               /\ ~result'.allowed
               /\ result'.remaining = 0
          /\ \A rl \in BucketOf(result'.key), r \in rate_limit_buckets' :
               (r.bucket_key = result'.key /\ SameWindowIdentity(rl, r)) =>
                 /\ r.request_count >= rl.request_count
                 /\ ~result'.allowed => r.request_count = rl.request_count + 1]_vars

(***************************************************************************)
(* createVehicleAction and the free tier limit (actions.ts, limits.ts)     *)
(***************************************************************************)
FREE_TIER_LIMITS == [vehicles |-> 1, modsPerVehicle |-> 10, imagesPerProfile |-> 10]

\* the form field name: missing or given
NameInputs == {"", "car"}

\* getVehicleCount: select id with an exact count where profile_id = profileId
getVehicleCount(c, profileId) ==
  Cardinality({v \in SelVehicles(c) : SqlEq(v.profile_id, profileId)})

\* enforceVehicleLimitOrRedirect: the call is refused
AtVehicleLimit(is_pro, count) == ~is_pro /\ count >= FREE_TIER_LIMITS.vehicles

\* (lastVehicle?.sort_order ?? -1) + 1
NextSortOrder(c, profileId) ==
  LET own == {v \in SelVehicles(c) : SqlEq(v.profile_id, profileId)}
  IN IF own = {} THEN 0
     ELSE (CHOOSE s \in {v.sort_order : v \in own} :
             \A v \in own : v.sort_order <= s) + 1

CreateVehicleRedirect(p, message) ==
  /\ inflight' = [inflight EXCEPT ![p] = Idle]
  /\ response' = [status |-> "redirect", message |-> message]

\* getAuthContext and enforceRateLimitOrRedirect: the profile of the session
\* user is read, and the limiter allows the call or not
CreateVehicleStart(p, userId, name, allowed) ==
  /\ inflight[p] = Idle
  /\ \E profile \in SelProfiles(AuthCaller(userId)) :
       /\ profile.id = userId
       /\ IF allowed
          THEN /\ inflight' = [inflight EXCEPT ![p] =
                    [pc |-> "limit", userId |-> userId, name |-> name,
                     profile |-> profile, nextSortOrder |-> 0]]
               /\ UNCHANGED response
          ELSE CreateVehicleRedirect(p, "Too many vehicle create requests.")
  /\ UNCHANGED <<request, effects>>
  /\ UNCHANGED dbvars
  /\ UNCHANGED rlvars
  /\ UNCHANGED sysvars

\* enforceVehicleLimitOrRedirect and the check of the form
CreateVehicleLimit(p) ==
  /\ inflight[p] # Idle
  /\ inflight[p].pc = "limit"
  /\ LET inv == inflight[p]
         count == getVehicleCount(AuthCaller(inv.userId), inv.profile.id)
     IN IF AtVehicleLimit(inv.profile.is_pro, count)
        THEN CreateVehicleRedirect(p, "Free plan allows one vehicle.")
        ELSE IF inv.name = ""
        THEN CreateVehicleRedirect(p, "Vehicle name is required.")
        ELSE /\ inflight' = [inflight EXCEPT ![p].pc = "sort"]
             /\ UNCHANGED response
  /\ UNCHANGED <<request, effects>>
  /\ UNCHANGED dbvars
  /\ UNCHANGED rlvars
  /\ UNCHANGED sysvars

\* the select of the last sort_order of the garage
CreateVehiclePrepareSort(p) ==
  /\ inflight[p] # Idle
  /\ inflight[p].pc = "sort"
  /\ inflight' = [inflight EXCEPT
       ![p].pc = "insert",
       ![p].nextSortOrder =
          NextSortOrder(AuthCaller(inflight[p].userId), inflight[p].profile.id)]
  /\ UNCHANGED <<request, effects, response>>
  /\ UNCHANGED dbvars
  /\ UNCHANGED rlvars
  /\ UNCHANGED sysvars

\* the insert into vehicles, with the id the table generates
CreateVehicleInsert(p, id) ==
  /\ inflight[p] # Idle
  /\ inflight[p].pc = "insert"
  /\ id \notin Ids(vehicles)
  /\ LET inv == inflight[p]
         c == AuthCaller(inv.userId)
         row == [id |-> id, profile_id |-> inv.userId, is_public |-> TRUE,
                 sort_order |-> inv.nextSortOrder, created_at |-> now]
     IN IF VehiclesInsertOutcome(c, row) = "ok"
        THEN /\ vehicles' = vehicles \cup {row}
             /\ last' = Statement("insert", "vehicles", c, row.id, {}, row, "ok")
             /\ CreateVehicleRedirect(p, "Vehicle created.")
        ELSE /\ UNCHANGED <<vehicles, last>>
             /\ CreateVehicleRedirect(p, "vehicleCreateFailed")
  /\ UNCHANGED <<profiles, mods, images>>
  /\ UNCHANGED <<request, effects>>
  /\ UNCHANGED rlvars
  /\ UNCHANGED sysvars

\* A is on the free plan, B is pro; no vehicles yet
InitCreateVehicle ==
  /\ now = 0
  /\ tx = EmptyBag
  /\ rate_limit_buckets = {}
  /\ consumed = [k \in Keys |-> <<>>]
  /\ calls = 0
  /\ result = NoResult
  /\ profiles = {ProvisionedProfile("A", NULL),
                 [ProvisionedProfile("B", "al") EXCEPT !.is_pro = TRUE]}
  /\ vehicles = {}
  /\ mods = {}
  /\ images = {}
  /\ last = NoStatement
  /\ inflight = [p \in Procs |-> Idle]
  /\ request = NoRequest
  /\ effects = <<>>
  /\ response = NoResponse
  /\ schema = NoSchema
  /\ objects = {}

NextCreateVehicle ==
  \/ \E p \in Procs, userId \in Users, name \in NameInputs, allowed \in BOOLEAN :
       CreateVehicleStart(p, userId, name, allowed)
  \/ \E p \in Procs : CreateVehicleLimit(p)
  \/ \E p \in Procs : CreateVehiclePrepareSort(p)
  \/ \E p \in Procs, id \in VehicleIds : CreateVehicleInsert(p, id)

SpecCreateVehicle == InitCreateVehicle /\ [][NextCreateVehicle]_vars

\* C39: a profile with is_pro = false never owns more than
\* FREE_TIER_LIMITS.vehicles vehicles, after any interleaving of
\* createVehicleAction calls.
C39_FreeTierVehicleLimit ==
  \A profile \in profiles :
    ~profile.is_pro =>
      Cardinality({v \in vehicles : v.profile_id = profile.id}) <= FREE_TIER_LIMITS.vehicles

====
